---- MODULE Spec2Model ----
(***************************************************************************)
(* A model of dylandreimerink/sharedhttpcache: the in-memory storage layer *)
(* (layer/inmemory.go) and the cache controller (controller.go) with the   *)
(* cacheability rules, the revalidation builder and the proxy forwarder.   *)
(*                                                                         *)
(* Time is counted in ticks; one second is Second ticks, so that the       *)
(* nanosecond durations of the code (time.Duration(-1)) stay smaller than  *)
(* a second.                                                               *)
(***************************************************************************)
EXTENDS Integers, Sequences, FiniteSets, TLC

VARIABLES
    layers,     \* controller.Layers: a sequence of InMemoryCacheLayer values
    now,        \* the wall clock (time.Now), in ticks
    lock,       \* InMemoryCacheLayer.lock of layer 1: readers and writer
    gor,        \* the goroutines that call layer 1 directly
    fatal,      \* the Go runtime stopped the process (fatal error)
    controller, \* the CacheController: its CacheConfig and ForwardConfig
    origin,     \* the representation the origin server serves
    hs,         \* the requests being handled: one ServeHTTP call each
    clients     \* the requests the clients send

lvars == <<lock, gor, fatal>>
cvars == <<controller, origin, hs, clients>>
vars == <<layers, now, lock, gor, fatal, controller, origin, hs, clients>>

----------------------------------------------------------------------------
(* Bounds *)

MaxTime == 2
Second == 2
MaxSize == 2
MaxLen == 2
\* the clock of the client-directive scenario stops here
MaxLate == 6

----------------------------------------------------------------------------
(* layer/inmemory.go *)

None == "none"

\* the keys and byte strings the goroutines of the layer specification use
LKeys == {"key1", "key2"}
LData == {[len |-> n] : n \in 1..MaxLen}
LTTLs == {-1, Second}

\* len(entry.Data)
DataLen(d) == d.len

NewInMemoryCacheLayer(maxSize) ==
    [MaxSize |-> maxSize, entityStore |-> <<>>, currentSize |-> 0, staleKeys |-> {}]

found(layer, key) == key \in DOMAIN layer.entityStore

mapDelete(m, key) == [x \in (DOMAIN m) \ {key} |-> m[x]]

mapSet(m, key, v) == [x \in (DOMAIN m) \cup {key} |-> IF x = key THEN v ELSE m[x]]

\* a delete that removes the entry and leaves currentSize as it is
deleteKeepsSize(layer, key) ==
    IF found(layer, key)
    THEN [layer |-> [layer EXCEPT !.entityStore = mapDelete(@, key)],
          size |-> DataLen(layer.entityStore[key].Data)]
    ELSE [layer |-> layer, size |-> 0]

\* InMemoryCacheLayer.delete: the layer after the call and the size it returns
delete(layer, key) ==
    IF found(layer, key)
    THEN LET size == DataLen(layer.entityStore[key].Data)
         IN [layer |-> [layer EXCEPT !.entityStore = mapDelete(@, key),
                                     !.currentSize = @ - size],
             size |-> size]
    ELSE [layer |-> layer, size |-> 0]

\* a set that leaves the entry alone when the key is already stored
setUnlessStored(layer, key, entry) ==
    IF found(layer, key) THEN layer
    ELSE [layer EXCEPT !.currentSize = @ + DataLen(entry.Data),
                       !.entityStore = mapSet(@, key, entry)]

\* InMemoryCacheLayer.set
set(layer, key, entry) ==
    LET l == delete(layer, key).layer
    IN [l EXCEPT !.currentSize = @ + DataLen(entry.Data),
                 !.entityStore = mapSet(@, key, entry)]

\* the second loop of replaceCache: range over the entity store, in any order
RECURSIVE replaceFresh(_, _, _)
replaceFresh(layer, neededSize, todo) ==
    IF todo = {}
    THEN {[layer |-> layer, err |-> TRUE]}
    ELSE UNION {
        LET d == delete(layer, key)
            n == neededSize - d.size
        IN IF n <= 0
           THEN {[layer |-> d.layer, err |-> FALSE]}
           ELSE replaceFresh(d.layer, n, todo \ {key})
        : key \in todo }

\* the first loop of replaceCache: range over the stale keys, in any order
RECURSIVE replaceStale(_, _, _)
replaceStale(layer, neededSize, todo) ==
    IF todo = {}
    THEN replaceFresh(layer, neededSize, DOMAIN layer.entityStore)
    ELSE UNION {
        LET d == delete(layer, key)
            n == neededSize - d.size
            l == [d.layer EXCEPT !.staleKeys = @ \ {key}]
        IN IF n <= 0
           THEN {[layer |-> l, err |-> FALSE]}
           ELSE replaceStale(l, n, todo \ {key})
        : key \in todo }

\* InMemoryCacheLayer.replaceCache: every outcome the map iteration order allows
replaceCache(layer, neededSize) == replaceStale(layer, neededSize, layer.staleKeys)

\* InMemoryCacheLayer.Set between Lock and Unlock: the set of possible outcomes
LayerSet(layer, key, data, ttl, t) ==
    LET availableRoom == layer.MaxSize - layer.currentSize
        entity == [Data |-> data, Expiration |-> t + ttl]
    IN IF DataLen(data) > availableRoom
       THEN { IF r.err
              THEN [layer |-> r.layer, err |-> TRUE]
              ELSE [layer |-> set(r.layer, key, entity), err |-> FALSE]
              : r \in replaceCache(layer, availableRoom - DataLen(data)) }
       ELSE {[layer |-> set(layer, key, entity), err |-> FALSE]}

\* InMemoryCacheLayer.Get between RLock and RUnlock
LayerGet(layer, key, t) ==
    IF found(layer, key)
    THEN LET entity == layer.entityStore[key]
             ttl == entity.Expiration - t
         IN [layer |-> IF ttl <= 0 THEN [layer EXCEPT !.staleKeys = @ \cup {key}] ELSE layer,
             found |-> TRUE, data |-> entity.Data, ttl |-> ttl, err |-> FALSE]
    ELSE [layer |-> layer, found |-> FALSE, data |-> None, ttl |-> 0, err |-> FALSE]

\* InMemoryCacheLayer.Delete between Lock and Unlock
LayerDelete(layer, key) == [layer |-> delete(layer, key).layer, err |-> FALSE]

\* InMemoryCacheLayer.Refresh between Lock and Unlock: the error is returned on every path
LayerRefresh(layer, key, ttl, t) ==
    [layer |-> IF found(layer, key)
               THEN [layer EXCEPT !.entityStore[key].Expiration = t + ttl]
               ELSE layer,
     err |-> TRUE]

----------------------------------------------------------------------------
(* The goroutines that call one in-memory layer, with its sync.RWMutex *)

Goroutines == {"g1", "g2"}

idle == [pc |-> "idle", key |-> None, data |-> None, ttl |-> 0]

lockFree == lock.writer = None /\ lock.readers = {}

\* Get: layer.lock.RLock()
GetRLock(g, key) ==
    /\ ~fatal
    /\ gor[g].pc = "idle"
    /\ lock.writer = None
    /\ lock' = [lock EXCEPT !.readers = @ \cup {g}]
    /\ gor' = [gor EXCEPT ![g] = [idle EXCEPT !.pc = "Get_read", !.key = key]]
    /\ UNCHANGED <<layers, now, fatal>>
    /\ UNCHANGED cvars

\* Get: the lookup in entityStore and the staleness test
GetRead(g) ==
    /\ ~fatal
    /\ gor[g].pc = "Get_read"
    /\ LET r == LayerGet(layers[1], gor[g].key, now)
       IN gor' = [gor EXCEPT ![g].pc = IF r.found /\ r.ttl <= 0 THEN "Get_mark" ELSE "Get_RUnlock"]
    /\ UNCHANGED <<layers, now, lock, fatal>>
    /\ UNCHANGED cvars

\* Get: layer.staleKeys[key] = true, under the read lock.  When another
\* goroutine writes the map at the same time the Go runtime may stop the
\* process ("concurrent map writes") or let both writes through.
GetMark(g) ==
    /\ ~fatal
    /\ gor[g].pc = "Get_mark"
    /\ \/ /\ layers' = [layers EXCEPT ![1].staleKeys = @ \cup {gor[g].key}]
          /\ gor' = [gor EXCEPT ![g].pc = "Get_RUnlock"]
          /\ UNCHANGED fatal
       \/ /\ \E g2 \in Goroutines \ {g} : gor[g2].pc = "Get_mark"
          /\ fatal' = TRUE
          /\ UNCHANGED <<layers, gor>>
    /\ UNCHANGED <<now, lock>>
    /\ UNCHANGED cvars

\* Get: the deferred layer.lock.RUnlock()
GetRUnlock(g) ==
    /\ ~fatal
    /\ gor[g].pc = "Get_RUnlock"
    /\ lock' = [lock EXCEPT !.readers = @ \ {g}]
    /\ gor' = [gor EXCEPT ![g] = idle]
    /\ UNCHANGED <<layers, now, fatal>>
    /\ UNCHANGED cvars

\* Set, Delete, Refresh: layer.lock.Lock()
WLock(g, op, key, data, ttl) ==
    /\ ~fatal
    /\ gor[g].pc = "idle"
    /\ lockFree
    /\ lock' = [lock EXCEPT !.writer = g]
    /\ gor' = [gor EXCEPT ![g] = [pc |-> op, key |-> key, data |-> data, ttl |-> ttl]]
    /\ UNCHANGED <<layers, now, fatal>>
    /\ UNCHANGED cvars

WUnlock(g) ==
    /\ lock' = [lock EXCEPT !.writer = None]
    /\ gor' = [gor EXCEPT ![g] = idle]

\* Set: the body and the deferred Unlock
SetBody(g) ==
    /\ ~fatal
    /\ gor[g].pc = "Set_locked"
    /\ \E r \in LayerSet(layers[1], gor[g].key, gor[g].data, gor[g].ttl, now) :
          layers' = [layers EXCEPT ![1] = r.layer]
    /\ WUnlock(g)
    /\ UNCHANGED <<now, fatal>>
    /\ UNCHANGED cvars

\* Delete: the body and Unlock
DeleteBody(g) ==
    /\ ~fatal
    /\ gor[g].pc = "Delete_locked"
    /\ layers' = [layers EXCEPT ![1] = LayerDelete(@, gor[g].key).layer]
    /\ WUnlock(g)
    /\ UNCHANGED <<now, fatal>>
    /\ UNCHANGED cvars

\* Refresh: the body and the deferred Unlock
RefreshBody(g) ==
    /\ ~fatal
    /\ gor[g].pc = "Refresh_locked"
    /\ layers' = [layers EXCEPT ![1] = LayerRefresh(@, gor[g].key, gor[g].ttl, now).layer]
    /\ WUnlock(g)
    /\ UNCHANGED <<now, fatal>>
    /\ UNCHANGED cvars

\* time passes
Tick ==
    /\ ~fatal
    /\ now < MaxTime
    /\ now' = now + 1
    /\ UNCHANGED <<layers, lock, gor, fatal>>
    /\ UNCHANGED cvars


----------------------------------------------------------------------------
(* HTTP messages.  A header is a function from field names to the sequence *)
(* of its values (http.Header); the values of Cache-Control are the        *)
(* directives splitCacheControlHeader yields, those of Date are clock      *)
(* readings truncated to the second.                                       *)

AgeHeader == "Age"
CacheControlHeader == "Cache-Control"
ExpiresHeader == "Expires"
DateHeader == "Date"
VaryHeader == "Vary"

NoCacheDirective == "no-cache"
NoStoreDirective == "no-store"
MustRevalidateDirective == "must-revalidate"
ProxyRevalidateDirective == "proxy-revalidate"
SMaxAgeDirective == "s-maxage"
MaxAgeDirective == "max-age"
PublicDirective == "public"
PrivateDirective == "private"

\* a directive without argument, with an integer argument, with an argument
\* that is no integer, and with a quoted field list naming Set-Cookie
Dir(n) == [n |-> n, kind |-> "plain", val |-> 0]
DirInt(n, v) == [n |-> n, kind |-> "int", val |-> v]
DirBad(n) == [n |-> n, kind |-> "bad", val |-> 0]
DirList(n) == [n |-> n, kind |-> "list", val |-> 0]

\* directive == name
Is(d, name) == d.n = name /\ d.kind = "plain"
\* strings.HasPrefix(directive, name)
HasPrefix(d, name) == d.n = name
\* strings.HasPrefix(directive, name + "=")
HasPrefixEq(d, name) == d.n = name /\ d.kind # "plain"
\* strconv.ParseInt(strings.TrimPrefix(directive, name + "="), 10, 0) succeeds
ParseOk(d) == d.kind = "int"
\* the header fields a quoted field list names
FieldList(d) == IF d.kind = "list" THEN {"Set-Cookie"} ELSE {}

\* http.Header[name]
Values(h, name) == IF name \in DOMAIN h THEN h[name] ELSE <<>>
\* http.Header.Get(name) != ""
Has(h, name) == Values(h, name) # <<>>
\* http.Header.Get(name)
Get(h, name) == Values(h, name)[1]
\* http.Header.Del(name)
Del(h, name) == [x \in (DOMAIN h) \ {name} |-> h[x]]
\* http.Header.Set(name, value)
HSet(h, name, v) == [x \in (DOMAIN h) \cup {name} |-> IF x = name THEN <<v>> ELSE h[x]]

RECURSIVE DelAll(_, _)
DelAll(h, names) ==
    IF names = {} THEN h
    ELSE LET n == CHOOSE x \in names : TRUE IN DelAll(Del(h, n), names \ {n})

Range(s) == {s[i] : i \in 1..Len(s)}

NoResponse == [StatusCode |-> 0]
NoRequest == [Method |-> None]

\* math.MinInt64, scaled to the 16-bit integers of the model
MinInt == -32768
\* a product in two's complement arithmetic of that width
WrapInt(x) == ((x + 32768) % 65536) - 32768

----------------------------------------------------------------------------
(* config.go *)

SafeMethods == {"GET", "HEAD", "OPTIONS", "TRACE"}
CacheableMethods == {"GET"}
CacheableFileExtensions == {"css"}
StatusCodes == {200, 206, 301, 302, 303, 403, 404, 410}
StatusCodeDefaultExpirationTimes(code) ==
    CASE code \in {200, 206, 301} -> 7200 * Second
      [] code \in {302, 303} -> 1200 * Second
      [] code = 403 -> 60 * Second
      [] OTHER -> 180 * Second

\* NewCacheConfig, with ServeStaleOnError as the deployment sets it
NewCacheConfig(serveStale) ==
    [CacheableMethods |-> CacheableMethods, SafeMethods |-> SafeMethods,
     CacheIncompleteResponses |-> FALSE, ServeStaleOnError |-> serveStale]

----------------------------------------------------------------------------
(* cacheability.go and proxy.go: the pure functions *)

isMethodSafe(config, method) == method \in config.SafeMethods

isMethodCacheable(config, method) == method \in config.CacheableMethods

\* every path counts as cacheable by default
anyPathCacheable(path) == TRUE

\* strings.HasSuffix(req.URL.Path, "." + extension)
hasCacheableExtension(path) == path \in {"/y.css"}

\* the Expires header tested before the directives of the response
shouldStoreResponseExpiresFirst(config, resp, t) ==
    LET req == resp.Request
        requestDirectives == Range(Values(req.Header, CacheControlHeader))
        responseDirectives == Range(Values(resp.Header, CacheControlHeader))
    IN  IF ~isMethodSafe(config, req.Method) THEN FALSE
        ELSE IF ~isMethodCacheable(config, req.Method) THEN FALSE
        ELSE IF resp.StatusCode = 206 /\ ~config.CacheIncompleteResponses THEN FALSE
        ELSE IF \E d \in requestDirectives : Is(d, NoStoreDirective) THEN FALSE
        ELSE IF \E d \in responseDirectives :
                    Is(d, NoStoreDirective) \/ Is(d, PrivateDirective) THEN FALSE
        ELSE IF /\ Has(req.Header, "Authorization")
                /\ ~\E d \in responseDirectives :
                        \/ Is(d, MustRevalidateDirective)
                        \/ Is(d, PublicDirective)
                        \/ HasPrefix(d, SMaxAgeDirective) THEN FALSE
        ELSE IF Has(resp.Header, VaryHeader) /\ Get(resp.Header, VaryHeader) = <<"*">> THEN FALSE
        ELSE IF Has(resp.Header, ExpiresHeader) /\ Get(resp.Header, ExpiresHeader) < 0 THEN FALSE
        ELSE IF Has(resp.Header, ExpiresHeader) /\ Get(resp.Header, ExpiresHeader) > t THEN TRUE
        ELSE IF \E d \in responseDirectives :
                    \/ HasPrefix(d, SMaxAgeDirective)
                    \/ HasPrefix(d, MaxAgeDirective)
                    \/ Is(d, PublicDirective) THEN TRUE
        ELSE IF ~hasCacheableExtension(req.URL.Path) THEN FALSE
        ELSE resp.StatusCode \in StatusCodes

\* The Expires header is a clock reading, negative when http.ParseTime fails.
shouldStoreResponse(config, resp, t) ==
    LET req == resp.Request
        requestDirectives == Range(Values(req.Header, CacheControlHeader))
        responseDirectives == Range(Values(resp.Header, CacheControlHeader))
    IN  IF ~isMethodSafe(config, req.Method) THEN FALSE
        ELSE IF ~isMethodCacheable(config, req.Method) THEN FALSE
        ELSE IF resp.StatusCode = 206 /\ ~config.CacheIncompleteResponses THEN FALSE
        ELSE IF \E d \in requestDirectives : Is(d, NoStoreDirective) THEN FALSE
        ELSE IF \E d \in responseDirectives :
                    Is(d, NoStoreDirective) \/ Is(d, PrivateDirective) THEN FALSE
        ELSE IF /\ Has(req.Header, "Authorization")
                /\ ~\E d \in responseDirectives :
                        \/ Is(d, MustRevalidateDirective)
                        \/ Is(d, PublicDirective)
                        \/ HasPrefix(d, SMaxAgeDirective) THEN FALSE
        ELSE IF Has(resp.Header, VaryHeader) /\ Get(resp.Header, VaryHeader) = <<"*">> THEN FALSE
        ELSE IF \E d \in responseDirectives :
                    \/ HasPrefix(d, SMaxAgeDirective)
                    \/ HasPrefix(d, MaxAgeDirective)
                    \/ Is(d, PublicDirective) THEN TRUE
        ELSE IF Has(resp.Header, ExpiresHeader) /\ Get(resp.Header, ExpiresHeader) < 0 THEN FALSE
        ELSE IF Has(resp.Header, ExpiresHeader) /\ Get(resp.Header, ExpiresHeader) > t THEN TRUE
        ELSE IF ~hasCacheableExtension(req.URL.Path) THEN FALSE
        ELSE resp.StatusCode \in StatusCodes

\* int64(d.Seconds()) for a duration of d ticks: truncation towards zero
Seconds(d) == IF d >= 0 THEN d \div Second ELSE -((-d) \div Second)

\* The Date header is a clock reading, negative when http.ParseTime fails.
getResponseAge(response, t) ==
    LET apparentAge ==
            IF Has(response.Header, DateHeader) /\ Get(response.Header, DateHeader) >= 0
            THEN LET a == Seconds(t - Get(response.Header, DateHeader))
                 IN IF a < 0 THEN 0 ELSE a
            ELSE 0
    IN IF Has(response.Header, AgeHeader)
       THEN Get(response.Header, AgeHeader) + apparentAge
       ELSE apparentAge

\* the first directive of the sequence with the prefix name whose argument parses
RECURSIVE firstParsed(_, _)
firstParsed(directives, name) ==
    IF directives = <<>> THEN <<>>
    ELSE IF HasPrefix(Head(directives), name) /\ ParseOk(Head(directives))
         THEN <<Head(directives).val>>
         ELSE firstParsed(Tail(directives), name)

\* the Expires header is a clock reading, negative when it cannot be parsed
getResponseTTL(config, resp, t) ==
    LET responseAge == getResponseAge(resp, t)
        directives == Values(resp.Header, CacheControlHeader)
        sMaxAge == firstParsed(directives, SMaxAgeDirective)
        maxAge == firstParsed(directives, MaxAgeDirective)
        date == IF Has(resp.Header, DateHeader) /\ Get(resp.Header, DateHeader) >= 0
                THEN Get(resp.Header, DateHeader) ELSE t
    IN  IF sMaxAge # <<>> THEN WrapInt(WrapInt(sMaxAge[1] - responseAge) * Second)
        ELSE IF maxAge # <<>> THEN WrapInt(WrapInt(maxAge[1] - responseAge) * Second)
        ELSE IF Has(resp.Header, ExpiresHeader)
             THEN IF Get(resp.Header, ExpiresHeader) < 0 THEN -1
                  ELSE WrapInt((Get(resp.Header, ExpiresHeader) - date)
                                  - WrapInt(Second * responseAge))
        ELSE IF resp.StatusCode \in StatusCodes
             THEN StatusCodeDefaultExpirationTimes(resp.StatusCode)
        ELSE -1

requestOrResponseHasNoCache(resp) ==
    \/ \E d \in Range(Values(resp.Header, CacheControlHeader)) :
          Is(d, NoCacheDirective) \/ HasPrefixEq(d, NoCacheDirective)
    \/ \E d \in Range(Values(resp.Request.Header, CacheControlHeader)) :
          Is(d, NoCacheDirective)
    \/ /\ ~Has(resp.Request.Header, CacheControlHeader)
       /\ Has(resp.Request.Header, "Pragma")
       /\ Get(resp.Request.Header, "Pragma") = NoCacheDirective

\* the same test with the proxy-revalidate directive left out
responseHasMustRevalidateOnly(resp) ==
    \E d \in Range(Values(resp.Header, CacheControlHeader)) : Is(d, MustRevalidateDirective)

responseHasMustRevalidate(resp) ==
    \E d \in Range(Values(resp.Header, CacheControlHeader)) :
        Is(d, MustRevalidateDirective) \/ Is(d, ProxyRevalidateDirective)

mayServeStaleResponseByExtension(cacheConfig, response) == FALSE

mayServeStaleResponse(cacheConfig, response) ==
    IF ~cacheConfig.ServeStaleOnError THEN FALSE
    ELSE IF mayServeStaleResponseByExtension(cacheConfig, response) THEN TRUE
    ELSE ~\E d \in Range(Values(response.Header, CacheControlHeader)) :
            \/ Is(d, MustRevalidateDirective)
            \/ Is(d, ProxyRevalidateDirective)
            \/ Is(d, NoCacheDirective)
            \/ HasPrefix(d, SMaxAgeDirective)

----------------------------------------------------------------------------
(* utils.go: cache keys.  A key is the sequence of the pieces the code     *)
(* concatenates.                                                           *)

\* the order sort.Strings gives the strings of the model
Rank(str) ==
    CASE str = "*" -> 0
      [] str = "G" -> 1
      [] str = "H" -> 2
      [] str = "a" -> 3
      [] str = "ab" -> 4
      [] str = "b" -> 5
      [] OTHER -> 6

RECURSIVE insertSorted(_, _)
insertSorted(s, x) ==
    IF s = <<>> THEN <<x>>
    ELSE IF Rank(x) <= Rank(Head(s)) THEN <<x>> \o s
    ELSE <<Head(s)>> \o insertSorted(Tail(s), x)

\* sort.Strings
RECURSIVE sortStrings(_)
sortStrings(s) == IF s = <<>> THEN <<>> ELSE insertSorted(sortStrings(Tail(s)), Head(s))

\* url.ParseQuery followed by Values.Encode: the parameters sorted by key
encodeQuery(rawQuery) == sortStrings(rawQuery)

\* the request URI is in the absolute-form
isAbsoluteForm(req) == req.URL.Host # "" /\ req.URL.Scheme # ""

getEffectiveURI(req, forwardConfig) ==
    IF isAbsoluteForm(req)
    THEN <<req.URL.Scheme, req.URL.Host, req.URL.Path>> \o req.URL.RawQuery
    ELSE <<IF req.TLS THEN "https" ELSE "http",
           IF req.Host # "" THEN req.Host ELSE forwardConfig.Host>>
         \o (IF req.URL.Path # "*"
             THEN <<req.URL.Path>> \o encodeQuery(req.URL.RawQuery)
             ELSE <<"">>)

getPrimaryCacheKey(cacheConfig, forwardConfig, req) ==
    <<req.Method>> \o getEffectiveURI(req, forwardConfig)

\* the pieces buf.WriteString(value) appends: the characters of the value
chars(value) == IF value = "ab" THEN <<"a", "b">> ELSE <<value>>

\* the sorted values written one after the other, with nothing in between
RECURSIVE writeValues(_)
writeValues(values) ==
    IF values = <<>> THEN <<>> ELSE chars(Head(values)) \o writeValues(Tail(values))

RECURSIVE secondaryKeyOf(_, _)
secondaryKeyOf(fields, req) ==
    IF fields = <<>> THEN <<>>
    ELSE <<"|", Head(fields), ":">> \o writeValues(sortStrings(Values(req.Header, Head(fields))))
         \o secondaryKeyOf(Tail(fields), req)

getSecondaryCacheKey(secondaryKeyFields, req) ==
    secondaryKeyOf(sortStrings(secondaryKeyFields), req)

secondaryKeysKey(primaryCacheKey) == <<"secondary-keys">> \o primaryCacheKey

----------------------------------------------------------------------------
(* revalidation.go *)

\* If-Modified-Since attached whatever the method of the request
makeRevalidationRequestAnyMethod(request, response) ==
    LET withEtag ==
            IF Has(response.Header, "Etag")
            THEN HSet(request.Header, "If-None-Match", Get(response.Header, "Etag"))
            ELSE request.Header
        withLastModified ==
            IF Has(response.Header, "Last-Modified")
            THEN HSet(withEtag, "If-Modified-Since", Get(response.Header, "Last-Modified"))
            ELSE withEtag
        canValidate == Has(response.Header, "Etag") \/ Has(response.Header, "Last-Modified")
    IN IF canValidate THEN [request EXCEPT !.Header = withLastModified] ELSE NoRequest

makeRevalidationRequest(request, response) ==
    LET withEtag ==
            IF Has(response.Header, "Etag")
            THEN HSet(request.Header, "If-None-Match", Get(response.Header, "Etag"))
            ELSE request.Header
        withLastModified ==
            IF request.Method \in {"GET", "HEAD"} /\ Has(response.Header, "Last-Modified")
            THEN HSet(withEtag, "If-Modified-Since", Get(response.Header, "Last-Modified"))
            ELSE withEtag
        canValidate ==
            \/ Has(response.Header, "Etag")
            \/ request.Method \in {"GET", "HEAD"} /\ Has(response.Header, "Last-Modified")
    IN IF canValidate THEN [request EXCEPT !.Header = withLastModified] ELSE NoRequest

----------------------------------------------------------------------------
(* proxy.go *)

hopHeaders == {"Connection", "Proxy-Connection", "Keep-Alive", "Proxy-Authenticate",
               "Proxy-Authorization", "Te", "Trailer", "Transfer-Encoding", "Upgrade"}

\* removeConnectionHeaders: every field the Connection header names is deleted
removeConnectionHeaders(h) == DelAll(h, Range(Values(h, "Connection")))

\* the request proxyToOrigin hands to transport.RoundTrip
outboundRequest(forwardConfig, req) ==
    LET h1 == removeConnectionHeaders(req.Header)
        h2 == DelAll(h1, {x \in hopHeaders :
                            /\ Has(h1, x)
                            /\ Get(h1, x) # ""
                            /\ ~(x = "Te" /\ Get(h1, x) = "trailers")})
    IN [req EXCEPT !.Header = h2,
                   !.URL.Scheme = IF forwardConfig.TLS THEN "https" ELSE "http",
                   !.URL.Host = req.Host]

\* the response proxyToOrigin returns for the response the transport gave
inboundResponse(response) ==
    [response EXCEPT !.Header = DelAll(removeConnectionHeaders(@), hopHeaders)]

\* the Age header set only when the age is above 0
withAgeWhenPositive(cachedResponse, t) ==
    LET age == getResponseAge(cachedResponse, t)
    IN IF age > 0
       THEN [cachedResponse EXCEPT !.Header = HSet(@, AgeHeader, age)]
       ELSE cachedResponse

\* writeCachedResponse: the Age header is set before the response is written
withAge(cachedResponse, t) ==
    LET age == getResponseAge(cachedResponse, t)
    IN IF age >= 0
       THEN [cachedResponse EXCEPT !.Header = HSet(@, AgeHeader, age)]
       ELSE cachedResponse

----------------------------------------------------------------------------
(* controller.go: the cascade of layers *)

RECURSIVE cascadeGet(_, _, _, _)
cascadeGet(ls, key, i, t) ==
    IF i > Len(ls)
    THEN [layers |-> ls, found |-> FALSE, data |-> None, ttl |-> -1]
    ELSE LET r == LayerGet(ls[i], key, t)
             ls2 == [ls EXCEPT ![i] = r.layer]
         IN IF r.found
            THEN [layers |-> ls2, found |-> TRUE, data |-> r.data, ttl |-> r.ttl]
            ELSE cascadeGet(ls2, key, i + 1, t)

\* http.ReadResponse(reader, nil): the stored bytes parsed; Request is nil
readResponse(data) ==
    [StatusCode |-> data.StatusCode, Header |-> data.Header, Body |-> data.Body,
     Request |-> NoRequest]

\* response.Write: the bytes stored for a response; their length is counted
\* in body blocks
writeResponse(response) ==
    [kind |-> "response", StatusCode |-> response.StatusCode,
     Header |-> response.Header, Body |-> response.Body, len |-> Len(response.Body)]

\* findResponseInCache: the response is NoResponse and the ttl -1 on a miss
\* a lookup that answers every key with a fresh response
findResponseInCacheNeverMisses(ls, cacheKey, t) ==
    [layers |-> ls,
     response |-> [StatusCode |-> 200, Header |-> <<>>, Body |-> <<>>, Request |-> NoRequest],
     ttl |-> Second]

findResponseInCache(ls, cacheKey, t) ==
    LET r == cascadeGet(ls, cacheKey, 1, t)
    IN [layers |-> r.layers,
        response |-> IF r.found THEN readResponse(r.data) ELSE NoResponse,
        ttl |-> r.ttl]

\* findSecondaryKeysInCache: the field names, one per line of the entry
findSecondaryKeysInCache(ls, cacheKey, t) ==
    LET r == cascadeGet(ls, secondaryKeysKey(cacheKey), 1, t)
    IN [layers |-> r.layers, keys |-> IF r.found THEN r.data.keys ELSE <<>>]

\* refreshCacheEntry: Refresh on every layer, errors are logged only
refreshCacheEntry(ls, cacheKey, ttl, t) ==
    [i \in 1..Len(ls) |-> LayerRefresh(ls[i], cacheKey, ttl, t).layer]

\* strings.Join(keys, "\n") of the sorted field names, each one byte long
joinKeys(keys) ==
    LET sorted == sortStrings(keys)
    IN [kind |-> "keys", keys |-> sorted,
        len |-> IF sorted = <<>> THEN 0 ELSE 2 * Len(sorted) - 1]

----------------------------------------------------------------------------
(* controller.go: invalidation after an unsafe request *)

EmptyURL == [Scheme |-> "", Host |-> "", Path |-> "", RawQuery |-> <<>>]

\* url.Parse(response.Header.Get(name)): an absent header parses as the empty URL
headerURL(response, name) ==
    IF Has(response.Header, name) THEN Get(response.Header, name) ELSE EmptyURL

\* url.Parse returns no error
parses(u) == u.Scheme # "%"

invalidationURLs(req, response, forwardConfig) ==
    LET pseudo(u) == [URL |-> u, TLS |-> req.TLS, Host |-> req.Host]
        location == headerURL(response, "Location")
        contentLocation == headerURL(response, "Content-Location")
    IN <<getEffectiveURI(req, forwardConfig)>>
       \o (IF parses(location)
           THEN <<getEffectiveURI(pseudo(location), forwardConfig)>> ELSE <<>>)
       \o (IF parses(contentLocation)
           THEN <<getEffectiveURI(pseudo(contentLocation), forwardConfig)>> ELSE <<>>)

\* the loop over the secondary keys of one primary key
RECURSIVE invalidateKeys(_, _, _, _)
invalidateKeys(ls, primaryKey, secondaryKeys, t) ==
    IF secondaryKeys = <<>> THEN ls
    ELSE LET key == primaryKey \o Head(secondaryKeys)
             f == findResponseInCache(ls, key, t)
             ls2 == IF f.ttl >= 0 THEN refreshCacheEntry(f.layers, key, -1, t) ELSE f.layers
         IN invalidateKeys(ls2, primaryKey, Tail(secondaryKeys), t)

\* the loop over the urls and the safe methods; the secondary keys are the
\* lines of the secondary-keys entry, the empty string when there is none
RECURSIVE invalidate(_, _, _, _)
invalidate(ls, urls, methods, t) ==
    IF urls = <<>> THEN ls
    ELSE IF methods = <<>> THEN invalidate(ls, Tail(urls), <<"GET", "HEAD", "OPTIONS", "TRACE">>, t)
    ELSE LET primaryKey == <<Head(methods)>> \o Head(urls)
             sk == findSecondaryKeysInCache(ls, primaryKey, t)
             secondaryKeys == IF Len(sk.keys) = 0 THEN << <<>> >>
                              ELSE [i \in 1..Len(sk.keys) |-> <<sk.keys[i]>>]
         IN invalidate(invalidateKeys(sk.layers, primaryKey, secondaryKeys, t),
                       urls, Tail(methods), t)

----------------------------------------------------------------------------
(* controller.go: the directives of the request in getCachedResponse *)

\* the loop over the request directives: maxAge and compareTTL
RECURSIVE requestDirectives(_, _)
requestDirectives(directives, acc) ==
    IF directives = <<>> THEN acc
    ELSE LET d == Head(directives)
             next ==
                IF HasPrefix(d, MaxAgeDirective)
                THEN [acc EXCEPT !.maxAge = IF ParseOk(d) THEN d.val ELSE -1]
                ELSE IF HasPrefix(d, "max-stale")
                THEN [acc EXCEPT !.compareTTL = IF ParseOk(d) THEN -d.val ELSE MinInt]
                ELSE IF HasPrefix(d, "min-fresh")
                THEN [acc EXCEPT !.compareTTL = IF ParseOk(d) THEN d.val ELSE 0]
                ELSE acc
         IN requestDirectives(Tail(directives), next)

clientDirectives(req) ==
    requestDirectives(Values(req.Header, CacheControlHeader), [maxAge |-> -1, compareTTL |-> 0])

clientWantsResponse(req, cachedResponse, t) ==
    LET c == clientDirectives(req)
    IN ~(c.compareTTL >= 0 /\ c.maxAge > -1 /\ getResponseAge(cachedResponse, t) > c.maxAge)

\* ttl > (time.Duration(compareTTL) * time.Second)
cachedResponseIsFresh(req, ttl) == ttl > WrapInt(clientDirectives(req).compareTTL * Second)

\* the fields of the no-cache="..." directives are deleted from the headers
stripNoCacheFields(ccOf, response) ==
    [response EXCEPT !.Header =
        DelAll(@, UNION {FieldList(d) : d \in {x \in Range(Values(ccOf.Header, CacheControlHeader)) :
                                                  HasPrefixEq(x, NoCacheDirective)}})]

hasNoCacheFields(response) ==
    \E d \in Range(Values(response.Header, CacheControlHeader)) : HasPrefixEq(d, NoCacheDirective)

\* the headers of the validation response overwrite those of the cached response
\* the overlay with the stored value winning
mergeHeadersKeepCached(cached, validation) ==
    [x \in (DOMAIN cached) \cup (DOMAIN validation) |->
        IF x \in DOMAIN cached THEN cached[x] ELSE validation[x]]

mergeHeaders(cached, validation) ==
    [x \in (DOMAIN cached) \cup (DOMAIN validation) |->
        IF x \in DOMAIN validation THEN validation[x] ELSE cached[x]]

----------------------------------------------------------------------------
(* The clients and the origin server *)

ForwardConfig == [Host |-> "origin", TLS |-> FALSE]

\* a nil *ForwardConfig
NilForwardConfig == [nil |-> TRUE]

\* http.Header built from <<name, values>> pairs; a field without values is absent
RECURSIVE mkHeader(_)
mkHeader(pairs) ==
    IF pairs = <<>> THEN <<>>
    ELSE LET rest == mkHeader(Tail(pairs))
             name == Head(pairs)[1]
             values == Head(pairs)[2]
         IN IF Len(values) = 0 THEN rest
            ELSE [x \in (DOMAIN rest) \cup {name} |-> IF x = name THEN values ELSE rest[x]]

\* the Date header of a message generated now: http.TimeFormat has no sub-second part
httpDate(t) == (t \div Second) * Second

\* a resource of the origin: its Cache-Control directives, whether it has an
\* ETag, and its Vary field names
Representation(cc, etag, vary) ==
    [Header |-> mkHeader(<<
        <<CacheControlHeader, cc>>,
        <<"Etag", IF etag THEN <<"v1">> ELSE <<>>>>,
        <<VaryHeader, IF vary = <<>> THEN <<>> ELSE <<vary>>>>,
        <<"Set-Cookie", IF \E d \in Range(cc) : d.kind = "list" THEN <<"c">> ELSE <<>>>> >>),
     Body |-> <<"v1">>]

MaxAge == DirInt(MaxAgeDirective, 1)

OriginCacheControls ==
    { <<>>, <<MaxAge>>, <<DirInt(MaxAgeDirective, 0)>>,
      <<MaxAge, Dir(MustRevalidateDirective)>>, <<MaxAge, Dir(ProxyRevalidateDirective)>>,
      <<MaxAge, Dir(NoCacheDirective)>>, <<MaxAge, DirList(NoCacheDirective)>>,
      <<MaxAge, Dir(NoStoreDirective)>>, <<MaxAge, Dir(PrivateDirective)>>,
      <<DirInt(SMaxAgeDirective, 1)>>, <<Dir(PublicDirective)>> }

Representations ==
    {Representation(cc, etag, vary) :
        cc \in OriginCacheControls, etag \in BOOLEAN, vary \in {<<>>}}
    \cup {Representation(<<MaxAge>>, FALSE, <<"*">>)}

VaryRepresentations ==
    {Representation(<<MaxAge>>, etag, vary) : etag \in BOOLEAN, vary \in {<<"H">>, <<"H", "G">>}}

URL(path) == [Scheme |-> "", Host |-> "", Path |-> path, RawQuery |-> <<>>]

Request(method, path, header) ==
    [Method |-> method, URL |-> URL(path), Host |-> "a", TLS |-> FALSE, Header |-> header]

RequestCacheControls ==
    { <<>>, <<Dir(NoCacheDirective)>>, <<Dir(NoStoreDirective)>>,
      <<DirInt("max-stale", 1)>>, <<Dir("max-stale")>>,
      <<DirInt("min-fresh", 1)>>, <<DirInt("min-fresh", -1)>>,
      <<DirInt(MaxAgeDirective, 0)>> }

RequestHeaders ==
    {mkHeader(<< <<CacheControlHeader, cc>> >>) : cc \in RequestCacheControls}
    \cup {mkHeader(<< <<"Pragma", <<NoCacheDirective>>>> >>),
          mkHeader(<< <<"Authorization", <<"secret">>>> >>),
          mkHeader(<< <<CacheControlHeader, <<Dir(NoStoreDirective)>>>>,
                      <<"Connection", <<CacheControlHeader>>>> >>)}

\* the requests of the sequential specification
Requests ==
    {Request("GET", "/x", header) : header \in RequestHeaders}
    \cup {Request("POST", "/x", <<>>)}

\* the requests of the specification with a Vary header
VaryRequests ==
    {Request(method, "/x", mkHeader(<< <<"H", <<v>>>> >>)) :
        method \in {"GET", "POST"}, v \in {"a", "b"}}

\* what the origin does with one request: a transport error, or a status
OriginModes == {"error", "200", "304", "404", "500", "503"}

\* the Location and Content-Location headers of a response to an unsafe request
Locations == {<<"", "">>, <<"/y", "">>, <<"", "/y">>}

isConditional(req) == Has(req.Header, "If-None-Match") \/ Has(req.Header, "If-Modified-Since")

\* the response transport.RoundTrip returns; Response.Request is the request sent
\* url.Parse of a field value: the absolute URI of /x on the host b, or a path
urlParse(value) ==
    IF value = "http://b/x"
    THEN [Scheme |-> "http", Host |-> "b", Path |-> "/x", RawQuery |-> <<>>]
    ELSE URL(value)

\* the body of an origin that selects its representation by the request header
\* fields its Vary header names
SelectedBody == <<"selected">>

\* the body the origin sends: for a selecting origin the values of the
\* selecting header fields of the request it answers
bodyFor(outreq) ==
    IF origin.Body = SelectedBody
    THEN << [f \in Range(Get(origin.Header, VaryHeader)) |-> Values(outreq.Header, f)] >>
    ELSE origin.Body

originResponse(mode, outreq, loc, t) ==
    LET date == << <<DateHeader, <<httpDate(t)>>>> >>
        locations == <<
            <<"Location", IF loc[1] = "" THEN <<>> ELSE <<urlParse(loc[1])>>>>,
            <<"Content-Location", IF loc[2] = "" THEN <<>> ELSE <<urlParse(loc[2])>>>> >>
    IN CASE mode = "200" ->
                [StatusCode |-> 200,
                 Header |-> mergeHeaders(origin.Header, mkHeader(date \o locations)),
                 Body |-> bodyFor(outreq), Request |-> outreq]
         [] mode = "304" ->
                [StatusCode |-> 304,
                 Header |-> mergeHeaders(Del(Del(origin.Header, VaryHeader), "Set-Cookie"),
                                         mkHeader(date)),
                 Body |-> <<>>, Request |-> outreq]
         [] OTHER ->
                [StatusCode |-> IF mode = "404" THEN 404 ELSE IF mode = "500" THEN 500 ELSE 503,
                 Header |-> mkHeader(date), Body |-> <<>>, Request |-> outreq]

----------------------------------------------------------------------------
(* controller.go: ServeHTTP, one action per step between two accesses to   *)
(* the layers or the origin                                                *)

Handlers == {"h1", "h2"}

NoStoring == [what |-> None, i |-> 0, entry |-> None, key |-> <<>>, ttl |-> 0]

idleHandler ==
    [pc |-> "idle", req |-> NoRequest, primaryCacheKey |-> <<>>, cacheKey |-> <<>>,
     cachedResponse |-> NoResponse, ttl |-> 0, response |-> NoResponse,
     storing |-> NoStoring, roundTrips |-> 0, validation |-> 0,
     validationResponse |-> NoResponse, producer |-> None,
     written |-> [kind |-> None, response |-> NoResponse]]

\* the handler is done: what was written to the client, and how
done(me, kind, response) ==
    [me EXCEPT !.pc = "done", !.written = [kind |-> kind, response |-> response]]

\* a nil io.ReadCloser
NoData == [kind |-> None, len |-> 0]

cacheConfig == controller.cacheConfig
forwardConfig == controller.forwardConfig

\* http.Error(resp, message, code)
httpError(code) == [StatusCode |-> code]

\* ServeHTTP up to the first round trip: the configuration is resolved, the
\* primary key computed, and getCachedResponse looks the response up
ServeHTTP(h, req) ==
    /\ hs[h].pc = "idle"
    /\ LET primaryCacheKey == getPrimaryCacheKey(cacheConfig, forwardConfig, req)
           sk == findSecondaryKeysInCache(layers, primaryCacheKey, now)
           cacheKey == primaryCacheKey \o getSecondaryCacheKey(sk.keys, req)
           f == findResponseInCache(sk.layers, cacheKey, now)
           cachedResponse == [f.response EXCEPT !.Request = req]
           ttl == f.ttl
           fresh == cachedResponseIsFresh(req, ttl)
           hasNoCache == requestOrResponseHasNoCache(cachedResponse)
           hasMustRevalidate == responseHasMustRevalidate(cachedResponse)
           wants == clientWantsResponse(req, cachedResponse, now)
           revalidationRequest == makeRevalidationRequest(req, cachedResponse)
           me == [idleHandler EXCEPT !.req = req, !.primaryCacheKey = primaryCacheKey]
           looked == [me EXCEPT !.cacheKey = cacheKey, !.cachedResponse = cachedResponse,
                                !.ttl = ttl]
       IN IF forwardConfig = NilForwardConfig /\ ~isAbsoluteForm(req) /\ req.Host = ""
          THEN \* getEffectiveURI reads forwardConfig.Host: a nil pointer dereference
               /\ hs' = [hs EXCEPT ![h] = done([idleHandler EXCEPT !.req = req],
                                               "panic", NoResponse)]
               /\ UNCHANGED layers
          ELSE IF ~(isMethodSafe(cacheConfig, req.Method) /\ isMethodCacheable(cacheConfig, req.Method))
          THEN /\ hs' = [hs EXCEPT ![h] = [me EXCEPT !.pc = "proxy"]]
               /\ UNCHANGED layers
          ELSE /\ layers' = f.layers
               /\ hs' = [hs EXCEPT ![h] =
                    IF f.response.StatusCode = 0
                    THEN [me EXCEPT !.pc = "proxy", !.cacheKey = cacheKey]
                    ELSE IF fresh /\ ~hasNoCache /\ ~hasMustRevalidate /\ wants
                    THEN done(looked, "cached", withAge(cachedResponse, now))
                    ELSE IF revalidationRequest.Method # None
                    THEN [looked EXCEPT !.pc = "revalidate"]
                    ELSE IF fresh /\ ~hasMustRevalidate /\ wants /\ hasNoCacheFields(cachedResponse)
                    THEN done(looked, "unvalidated",
                              withAge(stripNoCacheFields(cachedResponse, cachedResponse), now))
                    ELSE [looked EXCEPT !.pc = "proxy"]]
    /\ UNCHANGED <<now, controller, origin, clients>>
    /\ UNCHANGED lvars

\* getCachedResponse: the revalidation round trip and what follows it
Revalidate(h, mode) ==
    /\ hs[h].pc = "revalidate"
    /\ LET me == [hs[h] EXCEPT !.roundTrips = @ + 1]
           revalidationRequest == makeRevalidationRequest(me.req, me.cachedResponse)
           outreq == outboundRequest(forwardConfig, revalidationRequest)
           err == mode = "error"
           validationResponse ==
                IF err THEN NoResponse
                ELSE inboundResponse(originResponse(mode, outreq, <<"", "">>, now))
       IN hs' = [hs EXCEPT ![h] =
            IF forwardConfig = NilForwardConfig
            THEN \* proxyToOrigin reads forwardConfig.TLS: a nil pointer dereference
                 done(hs[h], "panic", NoResponse)
            ELSE IF err \/ validationResponse.StatusCode > 500
            THEN IF mayServeStaleResponse(cacheConfig, me.cachedResponse)
                 THEN \* response.Header is read while response is still nil
                      IF me.response.StatusCode = 0
                      THEN done(me, "panic", NoResponse)
                      ELSE done(me, "stale",
                                withAge(stripNoCacheFields(me.response, me.cachedResponse), now))
                 ELSE IF err
                 THEN done(me, "error", httpError(504))
                 ELSE done(me, "validation", validationResponse)
            ELSE IF validationResponse.StatusCode = 304
            THEN [me EXCEPT !.pc = "store", !.validation = 304,
                            !.validationResponse = validationResponse,
                            !.response = [me.cachedResponse EXCEPT !.Header =
                                            mergeHeaders(@, validationResponse.Header)]]
            ELSE IF validationResponse.StatusCode = 200
            THEN [me EXCEPT !.pc = "store", !.validation = 200, !.response = validationResponse]
            ELSE [me EXCEPT !.pc = "proxy", !.validation = validationResponse.StatusCode]]
    /\ UNCHANGED <<layers, now, controller, origin, clients>>
    /\ UNCHANGED lvars

\* the layers when every round trip of an unsafe request invalidates, also one
\* that ended in a transport error
invalidatedAlsoOnError(req, err, response) ==
    IF ~isMethodSafe(cacheConfig, req.Method)
    THEN invalidate(layers,
                    IF err THEN <<getEffectiveURI(req, forwardConfig)>>
                    ELSE invalidationURLs(req, response, forwardConfig),
                    <<"GET", "HEAD", "OPTIONS", "TRACE">>, now)
    ELSE layers

\* the layers when every response to an unsafe request invalidates, whatever
\* its status
invalidatedByAnyStatus(req, err, response) ==
    IF ~err /\ ~isMethodSafe(cacheConfig, req.Method)
    THEN invalidate(layers, invalidationURLs(req, response, forwardConfig),
                    <<"GET", "HEAD", "OPTIONS", "TRACE">>, now)
    ELSE layers

\* proxyRequestToOrigin: the layers after the round trip: a response to an
\* unsafe request with a status of 200 to 399 invalidates, nothing else does
invalidatedBy(req, err, response) ==
    IF /\ ~err
       /\ ~isMethodSafe(cacheConfig, req.Method)
       /\ response.StatusCode >= 200
       /\ response.StatusCode < 400
    THEN invalidate(layers, invalidationURLs(req, response, forwardConfig),
                    <<"GET", "HEAD", "OPTIONS", "TRACE">>, now)
    ELSE layers

\* proxyRequestToOrigin: the round trip and the invalidation after an unsafe request
Proxy(h, mode, loc) ==
    /\ hs[h].pc = "proxy"
    /\ IF forwardConfig = NilForwardConfig
       THEN \* proxyToOrigin reads forwardConfig.TLS: a nil pointer dereference
            /\ hs' = [hs EXCEPT ![h] = done(hs[h], "panic", NoResponse)]
            /\ UNCHANGED layers
       ELSE
       LET me == [hs[h] EXCEPT !.roundTrips = @ + 1]
           outreq == outboundRequest(forwardConfig, me.req)
           response == inboundResponse(originResponse(mode, outreq, loc, now))
       IN /\ mode = "304" => isConditional(outreq)
          /\ loc # <<"", "">> => (mode = "200" /\ ~isMethodSafe(cacheConfig, me.req.Method))
          /\ hs' = [hs EXCEPT ![h] =
                IF mode = "error"
                THEN done(me, "error", httpError(502))
                ELSE [me EXCEPT !.pc = "store", !.response = response]]
          /\ layers' = invalidatedBy(me.req, mode = "error", response)
    /\ UNCHANGED <<now, controller, origin, clients>>
    /\ UNCHANGED lvars

\* ServeHTTP: the Date header is set; storeResponse up to the first layer access
Store(h) ==
    /\ hs[h].pc = "store"
    /\ LET me == hs[h]
           response == IF Has(me.response.Header, DateHeader) THEN me.response
                       ELSE [me.response EXCEPT !.Header = HSet(@, DateHeader, httpDate(now))]
           ttl == getResponseTTL(cacheConfig, response, now)
           secondaryKeyFields == IF Has(response.Header, VaryHeader)
                                 THEN Get(response.Header, VaryHeader) ELSE <<>>
           cacheKey == me.primaryCacheKey \o getSecondaryCacheKey(secondaryKeyFields, me.req)
       IN hs' = [hs EXCEPT ![h] =
            IF shouldStoreResponse(cacheConfig, response, now) /\ ttl > 0
            THEN [me EXCEPT !.pc = "layerSet", !.response = response, !.cacheKey = cacheKey,
                            !.storing = [what |-> "keys", i |-> 1,
                                         entry |-> joinKeys(secondaryKeyFields),
                                         key |-> secondaryKeysKey(me.primaryCacheKey),
                                         ttl |-> ttl]]
            ELSE \* writeHTTPResponse
                 done(me, "response", response)]
    /\ UNCHANGED <<layers, now, controller, origin, clients>>
    /\ UNCHANGED lvars

\* storeResponseInCache: the goroutine that writes the response into the pipe,
\* once the pipe has been read to its end: response.Write returns, the pipe is
\* closed and the goroutine waits to send on writeErrChan
drained(producer) == IF producer = "writing" THEN "sending" ELSE producer

\* storeResponseInCache: writeErr := <-writeErrChan after storeInCache returned
joined(producer) == IF producer = None THEN None ELSE "joined"

\* storeInCache: cacheLayer.Set; storeResponse panics when it returns an error
StoreSet(h) ==
    /\ hs[h].pc = "layerSet"
    /\ LET me == hs[h]
           s == me.storing
       IN IF s.entry.kind = None
          THEN \* ioutil.ReadAll of a nil reader
               /\ hs' = [hs EXCEPT ![h] = done(me, "panic", NoResponse)]
               /\ UNCHANGED layers
          ELSE \E r \in LayerSet(layers[s.i], s.key, s.entry, s.ttl, now) :
                /\ layers' = [layers EXCEPT ![s.i] = r.layer]
                /\ hs' = [hs EXCEPT ![h] =
                      IF r.err
                      THEN done([me EXCEPT !.producer = joined(drained(@))], "panic", NoResponse)
                      ELSE [me EXCEPT !.pc = "layerGet", !.producer = drained(@)]]
    /\ UNCHANGED <<now, controller, origin, clients>>
    /\ UNCHANGED lvars

\* a loop over the layers that ends after the first one
firstLayerOnly(ls) == 1

\* storeInCache: for _, cacheLayer := range controller.Layers
rangeLayers(ls) == Len(ls)

\* storeInCache: cacheLayer.Get, whose reader feeds the next layer
StoreGet(h) ==
    /\ hs[h].pc = "layerGet"
    /\ LET me == hs[h]
           s == me.storing
           r == LayerGet(layers[s.i], s.key, now)
           entry == IF r.found THEN r.data ELSE NoData
       IN /\ layers' = [layers EXCEPT ![s.i] = r.layer]
          /\ hs' = [hs EXCEPT ![h] =
                IF s.i < rangeLayers(layers)
                THEN [me EXCEPT !.pc = "layerSet", !.storing.i = s.i + 1, !.storing.entry = entry]
                ELSE IF s.what = "keys"
                THEN \* storeResponseInCache: go func() { response.Write(pipeWriter) ... }
                     [me EXCEPT !.pc = "layerSet", !.producer = "writing",
                                !.storing = [s EXCEPT !.what = "response", !.i = 1,
                                                      !.entry = writeResponse(me.response),
                                                      !.key = me.cacheKey]]
                ELSE [me EXCEPT !.pc = "reread", !.storing = NoStoring,
                                !.producer = joined(@)]]
    /\ UNCHANGED <<now, controller, origin, clients>>
    /\ UNCHANGED lvars

\* storeResponse: the stored response is read back (nil when it is gone) and
\* ServeHTTP writes it: writeHTTPResponse dereferences the response
Reread(h) ==
    /\ hs[h].pc = "reread"
    /\ LET f == findResponseInCache(layers, hs[h].cacheKey, now)
       IN /\ layers' = f.layers
          /\ hs' = [hs EXCEPT ![h] = IF f.response.StatusCode = 0
                                     THEN done(hs[h], "panic", NoResponse)
                                     ELSE done(hs[h], "response", f.response)]
    /\ UNCHANGED <<now, controller, origin, clients>>
    /\ UNCHANGED lvars

\* the handler has returned
Return(h) ==
    /\ hs[h].pc = "done"
    /\ hs' = [hs EXCEPT ![h] = idleHandler]
    /\ UNCHANGED <<layers, now, controller, origin, clients>>
    /\ UNCHANGED lvars

NewCacheController(serveStale) ==
    [cacheConfig |-> NewCacheConfig(serveStale), forwardConfig |-> ForwardConfig]

Controllers == {NewCacheController(serveStale) : serveStale \in BOOLEAN}

InitWith(handlers, numLayers, controllers, representations, requests) ==
    /\ layers = [i \in 1..numLayers |-> NewInMemoryCacheLayer(MaxSize)]
    /\ now = 0
    /\ lock = [readers |-> {}, writer |-> None]
    /\ gor = [g \in Goroutines |-> idle]
    /\ fatal = FALSE
    /\ controller \in controllers
    /\ origin \in representations
    /\ hs = [h \in handlers |-> idleHandler]
    /\ clients = requests

\* one request at a time, one layer
Init == InitWith({"h1"}, 1, Controllers, Representations, Requests)

\* one request at a time, one layer, an origin whose responses have a Vary header
InitVary == InitWith({"h1"}, 1, Controllers, VaryRepresentations, VaryRequests)

\* two requests at a time for one resource, two layers
InitConc ==
    InitWith(Handlers, 2, {NewCacheController(TRUE)},
             {Representation(<<MaxAge>>, TRUE, <<"H">>)},
             {Request("GET", "/x", mkHeader(<< <<"H", <<"a">>>> >>))})

Next ==
    \/ \E h \in DOMAIN hs, req \in clients : ServeHTTP(h, req)
    \/ \E h \in DOMAIN hs, mode \in OriginModes : Revalidate(h, mode)
    \/ \E h \in DOMAIN hs, mode \in OriginModes, loc \in Locations : Proxy(h, mode, loc)
    \/ \E h \in DOMAIN hs : Store(h)
    \/ \E h \in DOMAIN hs : StoreSet(h)
    \/ \E h \in DOMAIN hs : StoreGet(h)
    \/ \E h \in DOMAIN hs : Reread(h)
    \/ \E h \in DOMAIN hs : Return(h)
    \/ Tick

Spec == Init /\ [][Next]_vars

SpecVary == InitVary /\ [][Next]_vars

SpecConc == InitConc /\ [][Next]_vars

\* the scenario of the client directives: the origin's response is fresh for
\* two seconds, the requests bear max-age, max-stale or min-fresh; the last
\* two values are the least whose product with a second leaves the integer width
ClientCacheControls ==
    { <<>>,
      <<DirInt("min-fresh", 1)>>, <<DirInt("min-fresh", -(MinInt \div Second))>>,
      <<DirInt("max-stale", 1)>>, <<DirInt("max-stale", 1 - (MinInt \div Second))>>,
      <<DirInt(MaxAgeDirective, 0)>>, <<DirInt(MaxAgeDirective, 1)>>,
      <<DirInt(MaxAgeDirective, 0), DirInt("min-fresh", -1)>> }

ClientRequests ==
    {Request("GET", "/x", mkHeader(<< <<CacheControlHeader, cc>> >>)) : cc \in ClientCacheControls}

ClientRepresentations ==
    {Representation(<<DirInt(MaxAgeDirective, 2)>>, etag, <<>>) : etag \in BOOLEAN}

InitClient ==
    InitWith({"h1"}, 1, {NewCacheController(FALSE)}, ClientRepresentations, ClientRequests)

\* time passes, long enough for the stored response to be stale for a second
LateTick ==
    /\ now < MaxLate
    /\ now' = now + 1
    /\ UNCHANGED <<layers, lock, gor, fatal>>
    /\ UNCHANGED cvars

ClientNext ==
    \/ \E h \in DOMAIN hs, req \in clients : ServeHTTP(h, req)
    \/ \E h \in DOMAIN hs, mode \in OriginModes : Revalidate(h, mode)
    \/ \E h \in DOMAIN hs, mode \in OriginModes : Proxy(h, mode, <<"", "">>)
    \/ \E h \in DOMAIN hs : Store(h)
    \/ \E h \in DOMAIN hs : StoreSet(h)
    \/ \E h \in DOMAIN hs : StoreGet(h)
    \/ \E h \in DOMAIN hs : Reread(h)
    \/ \E h \in DOMAIN hs : Return(h)
    \/ LateTick

SpecClient == InitClient /\ [][ClientNext]_vars

LayerInit ==
    /\ layers = <<NewInMemoryCacheLayer(MaxSize)>>
    /\ now = 0
    /\ lock = [readers |-> {}, writer |-> None]
    /\ gor = [g \in Goroutines |-> idle]
    /\ fatal = FALSE
    /\ controller = NewCacheController(TRUE)
    /\ origin = Representation(<<>>, FALSE, <<>>)
    /\ hs = [h \in Handlers |-> idleHandler]
    /\ clients = {}

LayerNext ==
    \/ \E g \in Goroutines, key \in LKeys : GetRLock(g, key)
    \/ \E g \in Goroutines : GetRead(g)
    \/ \E g \in Goroutines : GetMark(g)
    \/ \E g \in Goroutines : GetRUnlock(g)
    \/ \E g \in Goroutines, key \in LKeys, data \in LData, ttl \in LTTLs :
          WLock(g, "Set_locked", key, data, ttl)
    \/ \E g \in Goroutines, key \in LKeys : WLock(g, "Delete_locked", key, None, 0)
    \/ \E g \in Goroutines, key \in LKeys, ttl \in LTTLs :
          WLock(g, "Refresh_locked", key, None, ttl)
    \/ \E g \in Goroutines : SetBody(g)
    \/ \E g \in Goroutines : DeleteBody(g)
    \/ \E g \in Goroutines : RefreshBody(g)
    \/ Tick

SpecLayer == LayerInit /\ [][LayerNext]_vars

----------------------------------------------------------------------------
(* One caller of the in-memory layer, as in the tests of the layer: each    *)
(* call runs from Lock to Unlock, and the caller keeps what it returned    *)

CKeys == {"key1", "key2", "key3"}

\* the byte strings of the caller: two of one byte, one that exceeds MaxSize
CData == {[len |-> 1, bytes |-> "a"], [len |-> 1, bytes |-> "b"],
          [len |-> MaxSize + 1, bytes |-> "c"]}

\* a nil io.ReadCloser, and the absent argument of a call
nilReader == [len |-> 0, bytes |-> ""]

\* what the call just made returned: the reader's bytes and the duration of
\* Get, the error; afterSet tells a Get that follows a successful Set of its key
returned(op, key, data, ttl, err, reader, duration, afterSet) ==
    [pc |-> "idle", op |-> op, key |-> key, data |-> data, ttl |-> ttl,
     err |-> err, reader |-> reader, duration |-> duration, afterSet |-> afterSet]

noCall ==
    [pc |-> "idle", op |-> None, key |-> None, data |-> nilReader, ttl |-> 0,
     err |-> FALSE, reader |-> nilReader, duration |-> 0, afterSet |-> FALSE]

CallSet(g, key, data, ttl) ==
    /\ \E r \in LayerSet(layers[1], key, data, ttl, now) :
          /\ layers' = [layers EXCEPT ![1] = r.layer]
          /\ gor' = [gor EXCEPT ![g] =
                returned("Set", key, data, ttl, r.err, nilReader, 0, FALSE)]
    /\ UNCHANGED <<now, lock, fatal>>
    /\ UNCHANGED cvars

CallGet(g, key) ==
    /\ LET r == LayerGet(layers[1], key, now)
           reader == IF r.found THEN r.data ELSE nilReader
           afterSet == gor[g].op = "Set" /\ gor[g].key = key /\ ~gor[g].err
       IN /\ layers' = [layers EXCEPT ![1] = r.layer]
          /\ gor' = [gor EXCEPT ![g] =
                returned("Get", key, nilReader, 0, r.err, reader, r.ttl, afterSet)]
    /\ UNCHANGED <<now, lock, fatal>>
    /\ UNCHANGED cvars

CallDelete(g, key) ==
    /\ LET r == LayerDelete(layers[1], key)
       IN /\ layers' = [layers EXCEPT ![1] = r.layer]
          /\ gor' = [gor EXCEPT ![g] =
                returned("Delete", key, nilReader, 0, r.err, nilReader, 0, FALSE)]
    /\ UNCHANGED <<now, lock, fatal>>
    /\ UNCHANGED cvars

CallRefresh(g, key, ttl) ==
    /\ LET r == LayerRefresh(layers[1], key, ttl, now)
       IN /\ layers' = [layers EXCEPT ![1] = r.layer]
          /\ gor' = [gor EXCEPT ![g] =
                returned("Refresh", key, nilReader, ttl, r.err, nilReader, 0, FALSE)]
    /\ UNCHANGED <<now, lock, fatal>>
    /\ UNCHANGED cvars

\* a second passes: the next call no longer follows the last one at once
CallsTick ==
    /\ now + Second <= MaxTime
    /\ now' = now + Second
    /\ gor' = [g \in DOMAIN gor |-> noCall]
    /\ UNCHANGED <<layers, lock, fatal>>
    /\ UNCHANGED cvars

CallsInit ==
    /\ layers = <<NewInMemoryCacheLayer(MaxSize)>>
    /\ now = 0
    /\ lock = [readers |-> {}, writer |-> None]
    /\ gor = [g \in {"g1"} |-> noCall]
    /\ fatal = FALSE
    /\ controller = NewCacheController(TRUE)
    /\ origin = Representation(<<>>, FALSE, <<>>)
    /\ hs = [h \in Handlers |-> idleHandler]
    /\ clients = {}

CallsNext ==
    \/ \E g \in DOMAIN gor, key \in CKeys, data \in CData, ttl \in LTTLs : CallSet(g, key, data, ttl)
    \/ \E g \in DOMAIN gor, key \in CKeys : CallGet(g, key)
    \/ \E g \in DOMAIN gor, key \in CKeys : CallDelete(g, key)
    \/ \E g \in DOMAIN gor, key \in CKeys, ttl \in LTTLs : CallRefresh(g, key, ttl)
    \/ CallsTick

SpecCalls == CallsInit /\ [][CallsNext]_vars

----------------------------------------------------------------------------
(* C1: in the in-memory layer currentSize never exceeds MaxSize, after any *)
(* sequence or interleaving of Get, Set, Delete and Refresh.               *)
C1_CapacityBound ==
    \A i \in 1..Len(layers) : layers[i].currentSize <= layers[i].MaxSize

\* the memory each goroutine is about to touch, as <<field, mode>> pairs
access(g) ==
    CASE gor[g].pc = "Get_read" -> {<<"entityStore", "r">>}
      [] gor[g].pc = "Get_mark" -> {<<"staleKeys", "w">>}
      [] gor[g].pc \in {"Set_locked", "Delete_locked", "Refresh_locked"} ->
            {<<"entityStore", "w">>, <<"staleKeys", "w">>, <<"currentSize", "w">>}
      [] OTHER -> {}

(* C2: the in-memory layer is safe for concurrent use: no two goroutines   *)
(* touch the same field of the layer at the same time when one of them     *)
(* writes it; two Get calls never write the stale-key set concurrently.    *)
C2_NoDataRace ==
    \A g1, g2 \in Goroutines :
        g1 # g2 =>
            \A a1 \in access(g1), a2 \in access(g2) :
                a1[1] = a2[1] => (a1[2] = "r" /\ a2[2] = "r")

----------------------------------------------------------------------------
(* The controller: what the claims speak of *)

Done(h) == hs[h].pc = "done"

\* the handler wrote the response it found in the cache
servedFromStore(h) == Done(h) /\ hs[h].written.kind \in {"cached", "unvalidated", "stale"}

\* the Cache-Control directives of a message, by name
directiveNames(msg) == {d.n : d \in Range(Values(msg.Header, CacheControlHeader))}

keyHasPrefix(key, p) == Len(key) >= Len(p) /\ SubSeq(key, 1, Len(p)) = p

\* the keys of the responses a layer stores for a safe method and the uri,
\* whatever their secondary key
storedUnder(layer, uri) ==
    {key \in DOMAIN layer.entityStore :
        /\ layer.entityStore[key].Data.kind = "response"
        /\ \E m \in SafeMethods : keyHasPrefix(key, <<m>> \o uri)}

(* C3: after a request with an unsafe method that the origin answers with  *)
(* a status from 200 to 399, every response stored for a safe method under *)
(* the request URI, the Location or the Content-Location, every Vary       *)
(* variant included, has a TTL of at most 0.                               *)
C3_InvalidatedAfterUnsafe ==
    [][\A h \in DOMAIN hs :
        ( /\ hs[h].pc = "proxy"
          /\ hs'[h].pc = "store"
          /\ ~isMethodSafe(cacheConfig, hs[h].req.Method)
          /\ hs'[h].response.StatusCode \in 200..399 )
        => \A i \in 1..Len(layers') :
             \A u \in Range(invalidationURLs(hs[h].req, hs'[h].response, forwardConfig)) :
               \A key \in storedUnder(layers'[i], u) :
                  layers'[i].entityStore[key].Expiration - now' <= 0]_vars

\* the request has a max-stale directive
hasMaxStale(req) == "max-stale" \in directiveNames(req)

\* a stored response is written without a round trip only when its ttl is
\* above the compare-TTL of the request
C4_FreshWhenServed ==
    \A h \in DOMAIN hs :
        (servedFromStore(h) /\ hs[h].roundTrips = 0)
        => hs[h].ttl > WrapInt(clientDirectives(hs[h].req).compareTTL * Second)

(* C4: a stored response is written without a round trip to the origin    *)
(* only when its ttl is above the compare-TTL; hence an entry with a TTL   *)
(* of at most 0 is never served to a request without max-stale unless a    *)
(* revalidation was attempted.                                             *)
C4_StaleOnlyWithMaxStale ==
    /\ C4_FreshWhenServed
    /\ \A h \in DOMAIN hs :
        (servedFromStore(h) /\ hs[h].ttl <= 0 /\ ~hasMaxStale(hs[h].req))
        => hs[h].roundTrips > 0

\* Cache-Control: no-cache, or Pragma: no-cache without a Cache-Control header
requestHasNoCache(req) ==
    \/ \E d \in Range(Values(req.Header, CacheControlHeader)) : Is(d, NoCacheDirective)
    \/ /\ ~Has(req.Header, CacheControlHeader)
       /\ Values(req.Header, "Pragma") = <<NoCacheDirective>>

(* C5: a request with Cache-Control: no-cache, or with Pragma: no-cache    *)
(* and no Cache-Control, is never answered from a stored response unless   *)
(* the origin was contacted.                                               *)
C5_NoCacheContactsOrigin ==
    \A h \in DOMAIN hs :
        (servedFromStore(h) /\ requestHasNoCache(hs[h].req)) => hs[h].roundTrips > 0

\* the handler found a stored response with must-revalidate or proxy-revalidate
foundMustRevalidate(h) ==
    /\ hs[h].cachedResponse.StatusCode # 0
    /\ directiveNames(hs[h].cachedResponse)
          \cap {MustRevalidateDirective, ProxyRevalidateDirective} # {}

(* C6: a stored response with must-revalidate or proxy-revalidate is never *)
(* written to the client as it is stored: not while fresh, not as a stale  *)
(* fallback, not without a validator; it is written only after the origin  *)
(* answered the revalidation with 304.                                     *)
C6_MustRevalidate ==
    \A h \in DOMAIN hs :
        (Done(h) /\ foundMustRevalidate(h))
        => /\ ~servedFromStore(h)
           /\ hs[h].written.kind = "response" => hs[h].roundTrips > 0

\* a stored must-revalidate response was revalidated with 304 and written
C6_Witness ==
    \E h \in DOMAIN hs :
        /\ Done(h)
        /\ foundMustRevalidate(h)
        /\ hs[h].validation = 304
        /\ hs[h].written.kind = "response"

(* C7: every response that is stored was obtained with a safe, cacheable   *)
(* method, has neither no-store nor private, was not requested with        *)
(* no-store, has no Vary: *, has must-revalidate, public or s-maxage when  *)
(* the request bore Authorization, and has a TTL above 0.                  *)
C7_StoredOnlyIfAllowed ==
    [][\A h \in DOMAIN hs :
        (hs[h].pc = "store" /\ hs'[h].pc = "layerSet")
        => LET req == hs[h].req
               resp == hs'[h].response
           IN /\ req.Method \in SafeMethods \cap CacheableMethods
              /\ directiveNames(resp) \cap {NoStoreDirective, PrivateDirective} = {}
              /\ NoStoreDirective \notin directiveNames(req)
              /\ Values(resp.Header, VaryHeader) # << <<"*">> >>
              /\ Has(req.Header, "Authorization")
                    => directiveNames(resp) \cap {MustRevalidateDirective, PublicDirective,
                                                  SMaxAgeDirective} # {}
              /\ getResponseTTL(cacheConfig, resp, now) > 0]_vars

(* C8: when the revalidation fails (a transport error or a status above    *)
(* 500), ServeStaleOnError is set and the stored response has none of      *)
(* must-revalidate, proxy-revalidate, no-cache and s-maxage, the handler   *)
(* writes the stored response, with its Age computed anew.                 *)
C8_StaleOnError ==
    [][\A h \in DOMAIN hs :
        ( /\ hs[h].pc = "revalidate"
          /\ hs'[h].pc = "done"
          /\ cacheConfig.ServeStaleOnError
          /\ directiveNames(hs[h].cachedResponse)
                \cap {MustRevalidateDirective, ProxyRevalidateDirective,
                      NoCacheDirective, SMaxAgeDirective} = {} )
        => /\ hs'[h].written.kind = "stale"
           /\ hs'[h].written.response.StatusCode = hs[h].cachedResponse.StatusCode
           /\ Values(hs'[h].written.response.Header, AgeHeader)
                 = <<getResponseAge(hs[h].cachedResponse, now)>>]_vars

(* C9: when a layer fails to store an entry, the handler still writes the  *)
(* response of the origin to the client and returns normally.              *)
C9_StoreFailureStillServes ==
    [][\A h \in DOMAIN hs :
        ( /\ hs[h].pc = "layerSet"
          /\ hs[h].storing.entry.kind # None
          /\ hs'[h].pc \notin {"layerSet", "layerGet"} )
        => /\ hs'[h].pc = "done"
           /\ hs'[h].written.kind = "response"
           /\ hs'[h].written.response.StatusCode = hs[h].response.StatusCode]_vars

(* C10: when a stored entry is evicted or deleted concurrently, between    *)
(* the store and the re-read or between a layer's Set and the Get that     *)
(* feeds the next layer, the handler treats it as a miss and completes     *)
(* with a well-formed response.                                            *)
C10_EvictionIsAMiss ==
    [][\A h \in DOMAIN hs :
        /\ (hs[h].pc = "reread" /\ hs'[h].pc = "done")
              => hs'[h].written.kind = "response"
        /\ (hs[h].pc = "layerSet" /\ hs[h].storing.entry.kind = None /\ hs'[h].pc = "done")
              => hs'[h].written.kind = "response"]_vars

----------------------------------------------------------------------------
\* the entry the first layer holds under the cache key of the handler
storedEntry(ls, h) == ls[1].entityStore[hs[h].cacheKey].Data

\* the headers are those found in the cache, overlaid with those of the 304
isOverlay(header, cached, validation) ==
    /\ DOMAIN header = (DOMAIN cached) \cup (DOMAIN validation)
    /\ \A x \in DOMAIN validation : header[x] = validation[x]
    /\ \A x \in (DOMAIN cached) \ (DOMAIN validation) : header[x] = cached[x]

\* the stored response is the one found before the 304, with the headers of
\* the 304 laid over its own
mergedStored(ls, h) ==
    /\ found(ls[1], hs[h].cacheKey)
    /\ isOverlay(storedEntry(ls, h).Header, hs[h].cachedResponse.Header,
                 hs[h].validationResponse.Header)
    /\ storedEntry(ls, h).Body = hs[h].cachedResponse.Body

----------------------------------------------------------------------------
(* The requests of the integration scenario "Respect client max-age,       *)
(* max-stale and min-fresh directives"                                     *)

\* the scenario's first request: a GET without headers
initialRequest == Request("GET", "/x", <<>>)

\* the key under which a response to a GET of /x without Vary is stored
keyOfX == getPrimaryCacheKey(cacheConfig, forwardConfig, initialRequest)

\* the layer stores, under the key, a 200 response whose only Cache-Control
\* directive is max-age
holdsMaxAgeEntry(layer, key) ==
    /\ found(layer, key)
    /\ layer.entityStore[key].Data.kind = "response"
    /\ layer.entityStore[key].Data.StatusCode = 200
    /\ Values(layer.entityStore[key].Data.Header, CacheControlHeader) = <<MaxAge>>

\* entry.Expiration.Sub(time.Now()) of the layer's Get
remainingTTL(layer, key, t) == layer.entityStore[key].Expiration - t

\* the handler takes up the request
takesUp(h, req) == hs[h].pc = "idle" /\ hs'[h].pc # "idle" /\ hs'[h].req = req

\* the handler answered from the stored response, without a round trip
answeredFromCache(me) ==
    /\ me.pc = "done"
    /\ me.written.kind = "cached"
    /\ me.roundTrips = 0

\* the handler goes to the origin before it answers
sentToOrigin(me) == me.pc \in {"revalidate", "proxy"}

(* C12: while the response to a GET (200, Cache-Control: max-age, current  *)
(* Date) is stored and fresh, an identical GET is answered without a       *)
(* request to the origin, with the stored body and an Age header of at     *)
(* least 0.                                                                *)
C12_FreshHit ==
    [][\A h \in DOMAIN hs :
        ( /\ takesUp(h, initialRequest)
          /\ holdsMaxAgeEntry(layers[1], keyOfX)
          /\ remainingTTL(layers[1], keyOfX, now) > 0 )
        => /\ answeredFromCache(hs'[h])
           /\ hs'[h].written.response.StatusCode = 200
           /\ hs'[h].written.response.Body = layers[1].entityStore[keyOfX].Data.Body
           /\ Has(hs'[h].written.response.Header, AgeHeader)
           /\ Get(hs'[h].written.response.Header, AgeHeader) >= 0]_vars

\* the second GET is answered from the cache, some time after the first
C12_Witness ==
    \E h \in DOMAIN hs :
        /\ answeredFromCache(hs[h])
        /\ hs[h].req = initialRequest
        /\ Values(hs[h].cachedResponse.Header, CacheControlHeader) = <<MaxAge>>
        /\ hs[h].written.response.Body = origin.Body
        /\ Get(hs[h].written.response.Header, AgeHeader) >= 0
        /\ now > Get(hs[h].cachedResponse.Header, DateHeader)

\* the argument of the request's only Cache-Control directive, when it is name=N
onlyDirective(req, name) ==
    LET cc == Values(req.Header, CacheControlHeader)
    IN IF Len(cc) = 1 /\ cc[1].n = name /\ cc[1].kind = "int" THEN <<cc[1].val>> ELSE <<>>

\* the handler takes up a request whose only directive is name=N while a
\* response is stored for it
takesUpWith(h, name, N) ==
    /\ hs[h].pc = "idle"
    /\ hs'[h].pc # "idle"
    /\ onlyDirective(hs'[h].req, name) = <<N>>
    /\ found(layers[1], keyOfX)

\* the values of N the scenario's requests bear
DirectiveValues == {d.val : d \in UNION {Range(cc) : cc \in ClientCacheControls}}

(* C13: a request with Cache-Control: min-fresh=N is answered from the     *)
(* cache only if the remaining TTL of the stored response is above N       *)
(* seconds; otherwise it is sent to the origin.                            *)
C13_MinFresh ==
    [][\A h \in DOMAIN hs : \A N \in DirectiveValues :
        takesUpWith(h, "min-fresh", N)
        => /\ answeredFromCache(hs'[h]) => remainingTTL(layers[1], keyOfX, now) > N * Second
           /\ remainingTTL(layers[1], keyOfX, now) <= N * Second => sentToOrigin(hs'[h])]_vars

\* the same for the values of N whose product with a second keeps the width
C13_MinFreshInRange ==
    [][\A h \in DOMAIN hs : \A N \in DirectiveValues :
        (takesUpWith(h, "min-fresh", N) /\ WrapInt(N * Second) = N * Second)
        => /\ answeredFromCache(hs'[h]) <=> remainingTTL(layers[1], keyOfX, now) > N * Second
           /\ remainingTTL(layers[1], keyOfX, now) <= N * Second => sentToOrigin(hs'[h])]_vars

\* for how long the stored response has been stale: time.Now() past its Expiration
staleFor(layer, key, t) == t - layer.entityStore[key].Expiration

(* C14: a request with Cache-Control: max-stale=N is answered from the     *)
(* cache when the stored response has been stale for less than N seconds,  *)
(* and is sent to the origin when it has been stale for N seconds or more. *)
C14_MaxStale ==
    [][\A h \in DOMAIN hs : \A N \in DirectiveValues :
        (takesUpWith(h, "max-stale", N) /\ staleFor(layers[1], keyOfX, now) >= 0)
        => /\ staleFor(layers[1], keyOfX, now) < N * Second => answeredFromCache(hs'[h])
           /\ staleFor(layers[1], keyOfX, now) >= N * Second => sentToOrigin(hs'[h])]_vars

\* the same for the values of N whose product with a second keeps the width
C14_MaxStaleInRange ==
    [][\A h \in DOMAIN hs : \A N \in DirectiveValues :
        ( /\ takesUpWith(h, "max-stale", N)
          /\ staleFor(layers[1], keyOfX, now) >= 0
          /\ WrapInt((-N) * Second) = (-N) * Second )
        => /\ staleFor(layers[1], keyOfX, now) < N * Second => answeredFromCache(hs'[h])
           /\ staleFor(layers[1], keyOfX, now) >= N * Second => sentToOrigin(hs'[h])]_vars

\* the handler takes up a request with max-age=N and without max-stale while
\* a response is stored for it
takesUpMaxAge(h, N) ==
    /\ hs[h].pc = "idle"
    /\ hs'[h].pc # "idle"
    /\ DirInt(MaxAgeDirective, N) \in Range(Values(hs'[h].req.Header, CacheControlHeader))
    /\ ~hasMaxStale(hs'[h].req)
    /\ found(layers[1], keyOfX)

\* the age, in seconds, of the response stored in the layer
storedAge(layer, key, t) == getResponseAge(readResponse(layer.entityStore[key].Data), t)

(* C15: a request with Cache-Control: max-age=N and no max-stale is not    *)
(* answered from the cache when the age of the stored response, in         *)
(* seconds, is above N; it is answered from the cache when the age is at   *)
(* most N and the stored response is fresh.                                *)
C15_MaxAge ==
    [][\A h \in DOMAIN hs : \A N \in DirectiveValues :
        takesUpMaxAge(h, N)
        => /\ storedAge(layers[1], keyOfX, now) > N => sentToOrigin(hs'[h])
           /\ ( /\ storedAge(layers[1], keyOfX, now) <= N
                /\ remainingTTL(layers[1], keyOfX, now) > 0 ) => answeredFromCache(hs'[h])]_vars

\* the same for the requests whose only directive is max-age=N
C15_MaxAgeAlone ==
    [][\A h \in DOMAIN hs : \A N \in DirectiveValues :
        takesUpWith(h, MaxAgeDirective, N)
        => /\ storedAge(layers[1], keyOfX, now) > N => sentToOrigin(hs'[h])
           /\ ( /\ storedAge(layers[1], keyOfX, now) <= N
                /\ remainingTTL(layers[1], keyOfX, now) > 0 ) => answeredFromCache(hs'[h])]_vars

----------------------------------------------------------------------------
(* The integration scenario "Don't cache html by default"                  *)

\* the message has no max-age, s-maxage or public directive and no Expires
lacksFreshness(msg) ==
    /\ ~\E d \in Range(Values(msg.Header, CacheControlHeader)) :
            \/ HasPrefix(d, SMaxAgeDirective)
            \/ HasPrefix(d, MaxAgeDirective)
            \/ Is(d, PublicDirective)
    /\ ~Has(msg.Header, ExpiresHeader)

\* the layers store no response
noResponseStored ==
    \A i \in 1..Len(layers) : \A key \in DOMAIN layers[i].entityStore :
        layers[i].entityStore[key].Data.kind # "response"

(* C16: when the responses of the origin have no max-age, s-maxage or      *)
(* public directive and no Expires, and the path has no cacheable          *)
(* extension, no response is ever stored: every request, however many      *)
(* came before, reaches the origin, and a 200 has the origin's body.       *)
C16_NotCachedByDefault ==
    lacksFreshness(origin)
    => /\ noResponseStored
       /\ \A h \in DOMAIN hs :
            (Done(h) /\ ~hasCacheableExtension(hs[h].req.URL.Path))
            => /\ hs[h].roundTrips > 0
               /\ hs[h].cachedResponse.StatusCode = 0
               /\ hs[h].written.kind \in {"response", "error"}
               /\ hs[h].written.response.StatusCode = 200
                    => hs[h].written.response.Body = origin.Body

\* a later request for the page was answered by the origin with its body
C16_Witness ==
    \E h \in DOMAIN hs :
        /\ Done(h)
        /\ lacksFreshness(origin)
        /\ hs[h].req = initialRequest
        /\ hs[h].roundTrips > 0
        /\ hs[h].written.kind = "response"
        /\ hs[h].written.response.StatusCode = 200
        /\ hs[h].written.response.Body = origin.Body
        /\ Get(hs[h].written.response.Header, DateHeader) > 0
        /\ noResponseStored

----------------------------------------------------------------------------
(* The in-memory layer: what its caller observes *)

\* the caller's previous call and the call of this step
isCall(c, op, key) == c.op = op /\ c.key = key

(* C17: a successful Set(k, v, ttl) followed at once by Get(k), no call    *)
(* and no time in between, returns the bytes v and the remaining TTL ttl,  *)
(* whatever was stored under k before and whatever the Set evicted.        *)
C17_SetThenGet ==
    [][\A g \in DOMAIN gor : \A k \in CKeys :
        ( /\ isCall(gor[g], "Set", k)
          /\ ~gor[g].err
          /\ isCall(gor'[g], "Get", k) )
        => /\ ~gor'[g].err
           /\ gor'[g].reader = gor[g].data
           /\ gor'[g].duration = gor[g].ttl]_vars

\* a Get at once after the successful Set of its key, the layer being full
C17_Witness ==
    \E g \in DOMAIN gor : \E k \in CKeys :
        /\ isCall(gor[g], "Get", k)
        /\ gor[g].afterSet
        /\ gor[g].reader = [len |-> 1, bytes |-> "a"]
        /\ gor[g].duration = Second
        /\ now > 0
        /\ layers[1].currentSize >= layers[1].MaxSize

(* C18: Refresh(k, ttl) of a stored key returns no error, sets the         *)
(* remaining TTL of the entry to ttl and leaves its bytes unchanged; of an *)
(* absent key it changes nothing.                                          *)
C18_Refresh ==
    [][\A g \in DOMAIN gor : \A k \in CKeys :
        (isCall(gor'[g], "Refresh", k) /\ now' = now)
        => IF found(layers[1], k)
           THEN /\ ~gor'[g].err
                /\ found(layers'[1], k)
                /\ remainingTTL(layers'[1], k, now) = gor'[g].ttl
                /\ layers'[1].entityStore[k].Data = layers[1].entityStore[k].Data
           ELSE layers' = layers]_vars

\* what Refresh does to the layer, the returned error left aside
C18_RefreshEffect ==
    [][\A g \in DOMAIN gor : \A k \in CKeys :
        (isCall(gor'[g], "Refresh", k) /\ now' = now)
        => IF found(layers[1], k)
           THEN /\ found(layers'[1], k)
                /\ remainingTTL(layers'[1], k, now) = gor'[g].ttl
                /\ layers'[1].entityStore[k].Data = layers[1].entityStore[k].Data
           ELSE layers' = layers]_vars

\* the stored entries the layer has seen stale, and that are stale
knownStale(layer, t) ==
    {k \in layer.staleKeys : found(layer, k) /\ remainingTTL(layer, k, t) <= 0}

\* the bytes the entries under the keys take up
RECURSIVE sizeOf(_, _)
sizeOf(layer, keys) ==
    IF keys = {} THEN 0
    ELSE LET k == CHOOSE x \in keys : TRUE
         IN DataLen(layer.entityStore[k].Data) + sizeOf(layer, keys \ {k})

\* the entries with a positive TTL that this step removes though their key is
\* not the one being set
evictedFresh(k) ==
    {e \in (DOMAIN layers[1].entityStore) \ {k} :
        remainingTTL(layers[1], e, now) > 0 /\ ~found(layers'[1], e)}

(* C19: when a Set needs room, an entry whose TTL is still positive is     *)
(* evicted only after every known-stale entry has been deleted and the     *)
(* capacity still does not suffice.                                        *)
C19_StaleFirst ==
    [][\A g \in DOMAIN gor : \A k \in CKeys :
        (isCall(gor'[g], "Set", k) /\ now' = now /\ evictedFresh(k) # {})
        => /\ \A st \in knownStale(layers[1], now) \ {k} : ~found(layers'[1], st)
           /\ DataLen(gor'[g].data)
                > layers[1].MaxSize
                    - (layers[1].currentSize - sizeOf(layers[1], knownStale(layers[1], now)))]_vars

\* what the layer stores under the key, if anything
entryOf(layer, key) == IF found(layer, key) THEN <<layer.entityStore[key]>> ELSE <<>>

(* C20: a Set of an entry larger than MaxSize returns an error and does    *)
(* not store the entry, whatever the layer holds.                          *)
C20_TooLarge ==
    [][\A g \in DOMAIN gor : \A k \in CKeys :
        ( /\ isCall(gor'[g], "Set", k)
          /\ now' = now
          /\ DataLen(gor'[g].data) > layers[1].MaxSize )
        => /\ gor'[g].err
           /\ entryOf(layers'[1], k) = entryOf(layers[1], k)]_vars

\* the same when the layer stores nothing and has no key marked stale
C20_TooLargeForEmpty ==
    [][\A g \in DOMAIN gor : \A k \in CKeys :
        ( /\ isCall(gor'[g], "Set", k)
          /\ now' = now
          /\ DataLen(gor'[g].data) > layers[1].MaxSize
          /\ DOMAIN layers[1].entityStore = {}
          /\ layers[1].staleKeys = {} )
        => /\ gor'[g].err
           /\ layers' = layers]_vars

----------------------------------------------------------------------------
(* The cache keys of two requests: the keys ServeHTTP and getCachedResponse *)
(* compute for each request the client sends, with the field names of the   *)
(* stored Vary header.                                                      *)

\* a request line in the absolute-form: the URL carries scheme and host
absoluteForm(req) == [req EXCEPT !.URL.Scheme = "http", !.URL.Host = req.Host]

\* the queries of the requests: no parameter, or the parameters a and b
KeyQueries == {<<>>, <<"a", "b">>, <<"b", "a">>}

\* the field lines of a header a request may hold
KeyValues == {<<>>, <<"a">>, <<"b">>, <<"ab">>, <<"a", "b">>, <<"b", "a">>}

\* requests for one path that differ in method, form of the URL, query and Date
PrimaryKeyRequests ==
    LET base(method, query, date) ==
            [Request(method, "/x", mkHeader(<< <<"Date", date>> >>))
                EXCEPT !.URL.RawQuery = query]
        origins == {base(method, query, date) :
                       method \in {"GET", "get"}, query \in KeyQueries,
                       date \in {<<>>, <<"d">>, <<"d", "d">>}}
    IN origins \cup {absoluteForm(req) : req \in origins}

\* requests for one path that differ in the headers G and H
SecondaryKeyRequests ==
    {Request("GET", "/x", mkHeader(<< <<"G", g>>, <<"H", h>> >>)) :
        g \in KeyValues, h \in {<<>>, <<"a">>}}

KeyRequests == PrimaryKeyRequests \cup SecondaryKeyRequests

\* the field names of the Vary header of the stored response
KeyFields == {<<"G", "H">>, <<"H", "G">>}

noKeys == [primary |-> <<>>, secondary |-> <<>>, full |-> <<>>, pc |-> "start"]

KeysInit ==
    /\ layers = <<NewInMemoryCacheLayer(MaxSize)>>
    /\ now = 0
    /\ lock = [readers |-> {}, writer |-> None]
    /\ gor = [g \in Goroutines |-> idle]
    /\ fatal = FALSE
    /\ controller = NewCacheController(FALSE)
    /\ origin \in KeyFields
    /\ clients \in {{r1, r2} : r1 \in KeyRequests, r2 \in KeyRequests} \ {{req} : req \in KeyRequests}
    /\ hs = [req \in clients |-> noKeys]

\* ServeHTTP computes the primary cache key of the request
PrimaryKey(req) ==
    /\ hs[req].pc = "start"
    /\ hs' = [hs EXCEPT ![req].primary = getPrimaryCacheKey(cacheConfig, forwardConfig, req),
                        ![req].pc = "primary"]
    /\ UNCHANGED <<layers, now, controller, origin, clients>>
    /\ UNCHANGED lvars

\* getCachedResponse computes the secondary cache key and looks up both together
SecondaryKey(req) ==
    /\ hs[req].pc = "primary"
    /\ LET secondaryCacheKey == getSecondaryCacheKey(origin, req)
       IN hs' = [hs EXCEPT ![req].secondary = secondaryCacheKey,
                           ![req].full = hs[req].primary \o secondaryCacheKey,
                           ![req].pc = "full"]
    /\ UNCHANGED <<layers, now, controller, origin, clients>>
    /\ UNCHANGED lvars

KeysNext ==
    \/ \E req \in clients : PrimaryKey(req)
    \/ \E req \in clients : SecondaryKey(req)

SpecKeys == KeysInit /\ [][KeysNext]_vars

----------------------------------------------------------------------------
\* the method name in capital letters
upperCase(method) == IF method = "get" THEN "GET" ELSE method

\* the request with the noise taken out: the order of the query parameters,
\* the letter case of the method, the Date field lines
withoutNoise(req) ==
    [req EXCEPT !.Method = upperCase(@),
                !.URL.RawQuery = sortStrings(@),
                !.Header = Del(@, "Date")]

\* both requests have their primary cache key, and differ only in the noise
differOnlyInNoise(r1, r2) ==
    /\ hs[r1].pc # "start"
    /\ hs[r2].pc # "start"
    /\ r1 # r2
    /\ withoutNoise(r1) = withoutNoise(r2)

(* C21: two requests that differ only in the order of their query          *)
(* parameters, in the letter case of the method name or in duplicate Date  *)
(* field lines have the same primary cache key, in the origin-form and in  *)
(* the absolute-form.                                                      *)
C21_KeyDeterminism ==
    \A r1 \in clients : \A r2 \in clients :
        differOnlyInNoise(r1, r2) => hs[r1].primary = hs[r2].primary

\* the same for two origin-form requests whose method is spelled the same
C21_KeyDeterminismOriginForm ==
    \A r1 \in clients : \A r2 \in clients :
        ( /\ differOnlyInNoise(r1, r2)
          /\ r1.Method = r2.Method
          /\ ~isAbsoluteForm(r1) )
        => hs[r1].primary = hs[r2].primary

\* two absolute-form requests with the parameters in another order, both keyed
C21_AbsoluteFormPair ==
    \E r1 \in clients : \E r2 \in clients :
        /\ differOnlyInNoise(r1, r2)
        /\ r1.Method = r2.Method
        /\ isAbsoluteForm(r1)
        /\ r1.URL.RawQuery # r2.URL.RawQuery

----------------------------------------------------------------------------
\* both requests have their full cache key, and differ only in the field
\* lines of the header G, the first the stored Vary header names
differOnlyInG(r1, r2) ==
    /\ hs[r1].pc = "full"
    /\ hs[r2].pc = "full"
    /\ [r1 EXCEPT !.Header = Del(@, "G")] = [r2 EXCEPT !.Header = Del(@, "G")]
    /\ Values(r1.Header, "G") # Values(r2.Header, "G")

(* C22: for a stored response with Vary: G, H, two requests that are the   *)
(* same but for the list of values of their header G have different full   *)
(* cache keys.                                                             *)
C22_VaryCoverage ==
    \A r1 \in clients : \A r2 \in clients :
        differOnlyInG(r1, r2) => hs[r1].full # hs[r2].full

\* the same when the lists differ in more than the order of the values
C22_VaryCoverageUpToOrder ==
    \A r1 \in clients : \A r2 \in clients :
        ( /\ differOnlyInG(r1, r2)
          /\ sortStrings(Values(r1.Header, "G")) # sortStrings(Values(r2.Header, "G")) )
        => hs[r1].full # hs[r2].full

\* the same when each request has at most one field line G
C22_VaryCoverageOneValue ==
    \A r1 \in clients : \A r2 \in clients :
        ( /\ differOnlyInG(r1, r2)
          /\ Len(Values(r1.Header, "G")) <= 1
          /\ Len(Values(r2.Header, "G")) <= 1 )
        => hs[r1].full # hs[r2].full

\* two requests with one field line G each, both with their full cache key
C22_OneValuePair ==
    \E r1 \in clients : \E r2 \in clients :
        /\ differOnlyInG(r1, r2)
        /\ Len(Values(r1.Header, "G")) = 1
        /\ Len(Values(r2.Header, "G")) = 1

----------------------------------------------------------------------------
(* proxy.go: one round trip through proxyToOrigin, for requests and origin  *)
(* responses that carry hop-by-hop header fields.                           *)

\* every header made of one choice of field lines per name
RECURSIVE headersOf(_)
headersOf(choices) ==
    IF choices = <<>> THEN {<<>>}
    ELSE {mkHeader(<< <<Head(choices)[1], values>> >>) @@ rest :
            values \in Head(choices)[2], rest \in headersOf(Tail(choices))}

ProxyRequests ==
    {Request("GET", "/x", header) :
        header \in headersOf(<<
            <<"Connection", {<<>>, <<"Keep-Alive">>, <<"X-Custom">>, <<"X-Custom", "Upgrade">>}>>,
            <<"Keep-Alive", {<<>>, <<"timeout=5">>, <<"">>, <<"", "timeout=5">>}>>,
            <<"Te", {<<>>, <<"trailers">>, <<"gzip">>}>>,
            <<"Upgrade", {<<>>, <<"h2c">>}>>,
            <<"X-Custom", {<<>>, <<"v">>}>>,
            <<"Accept", {<<"text/html">>}>> >>)}

\* the responses the transport hands back
ProxyResponses ==
    {[StatusCode |-> 200, Header |-> header, Body |-> <<>>] :
        header \in headersOf(<<
            <<"Connection", {<<>>, <<"X-Custom">>}>>,
            <<"Keep-Alive", {<<>>, <<"timeout=5">>, <<"">>}>>,
            <<"Trailer", {<<>>, <<"Expires">>}>>,
            <<"X-Custom", {<<>>, <<"v">>}>>,
            <<"Content-Type", {<<"text/html">>}>> >>)}

proxyIdle == [pc |-> "start", outreq |-> NoRequest, response |-> NoResponse, err |-> FALSE]

ProxyInit ==
    /\ layers = <<NewInMemoryCacheLayer(MaxSize)>>
    /\ now = 0
    /\ lock = [readers |-> {}, writer |-> None]
    /\ gor = [g \in Goroutines |-> idle]
    /\ fatal = FALSE
    /\ controller = NewCacheController(FALSE)
    /\ origin \in ProxyResponses
    /\ clients \in {{req} : req \in ProxyRequests}
    /\ hs = [req \in clients |-> proxyIdle]

\* proxyToOrigin up to transport.RoundTrip(outreq)
ProxySend(req) ==
    /\ hs[req].pc = "start"
    /\ hs' = [hs EXCEPT ![req].outreq = outboundRequest(forwardConfig, req),
                        ![req].pc = "roundtrip"]
    /\ UNCHANGED <<layers, now, controller, origin, clients>>
    /\ UNCHANGED lvars

\* transport.RoundTrip returns an error: proxyToOrigin returns nil, err
ProxyFail(req) ==
    /\ hs[req].pc = "roundtrip"
    /\ hs' = [hs EXCEPT ![req].err = TRUE, ![req].pc = "returned"]
    /\ UNCHANGED <<layers, now, controller, origin, clients>>
    /\ UNCHANGED lvars

\* transport.RoundTrip returns a response: proxyToOrigin returns it stripped
ProxyReceive(req) ==
    /\ hs[req].pc = "roundtrip"
    /\ hs' = [hs EXCEPT ![req].response = inboundResponse(origin), ![req].pc = "returned"]
    /\ UNCHANGED <<layers, now, controller, origin, clients>>
    /\ UNCHANGED lvars

ProxyNext ==
    \/ \E req \in clients : ProxySend(req)
    \/ \E req \in clients : ProxyFail(req)
    \/ \E req \in clients : ProxyReceive(req)

SpecProxy == ProxyInit /\ [][ProxyNext]_vars

\* the header fields that may not pass: those the Connection header of the
\* message names, and the fixed list
hopByHop(header) == hopHeaders \cup Range(Values(header, "Connection"))

\* none of the fields is among the header's field names
carriesNone(header, names) == names \cap DOMAIN header = {}

(* C23: for every round trip through proxyToOrigin, neither the request    *)
(* sent to the origin nor the response handed back carries a header field  *)
(* that the Connection header of the message names or that is in the fixed *)
(* list of hop-by-hop fields.                                              *)
C23_HopByHop ==
    \A req \in clients :
        /\ hs[req].pc # "start" => carriesNone(hs[req].outreq.Header, hopByHop(req.Header))
        /\ (hs[req].pc = "returned" /\ ~hs[req].err)
              => carriesNone(hs[req].response.Header, hopByHop(origin.Header))

\* the same for the response alone
C23_HopByHopResponse ==
    \A req \in clients :
        (hs[req].pc = "returned" /\ ~hs[req].err)
            => carriesNone(hs[req].response.Header, hopByHop(origin.Header))

\* the same for the request, but for Te: trailers, when no field of the
\* fixed list has an empty first value
C23_HopByHopRequest ==
    \A req \in clients :
        ( /\ hs[req].pc # "start"
          /\ \A name \in hopHeaders : Has(req.Header, name) => Get(req.Header, name) # "" )
        => carriesNone(hs[req].outreq.Header,
                       hopByHop(req.Header)
                          \ (IF Values(hs[req].outreq.Header, "Te") = <<"trailers">>
                             THEN {"Te"} ELSE {}))

\* a request with Connection: Keep-Alive and a Keep-Alive field was sent on
C23_KeepAliveSent ==
    \E req \in clients :
        /\ hs[req].pc # "start"
        /\ Values(req.Header, "Connection") = <<"Keep-Alive">>
        /\ Values(req.Header, "Keep-Alive") = <<"timeout=5">>

----------------------------------------------------------------------------
\* the response proxyToOrigin returns to the revalidation of handler h when
\* the origin answers as the mode says
validationResponseOf(h, mode) ==
    inboundResponse(
        originResponse(mode,
                       outboundRequest(forwardConfig,
                                       makeRevalidationRequest(hs[h].req, hs[h].cachedResponse)),
                       <<"", "">>, now))

\* the revalidation of handler h fails as the mode says, and the stored
\* response may not be served stale
revalidationFails(h, mode) ==
    /\ Revalidate(h, mode)
    /\ ~mayServeStaleResponse(cacheConfig, hs[h].cachedResponse)

\* the handler ends its request with this response, not the stored one
endsWith(h, response) ==
    /\ hs'[h].pc = "done"
    /\ hs'[h].written.kind \notin {"cached", "unvalidated", "stale"}
    /\ hs'[h].written.response = response

(* C24: when a revalidation fails and the stored response may not be       *)
(* served stale, the stored response is not written: a transport error     *)
(* gives the client a 504, a 5xx response of the origin is forwarded with  *)
(* its status, headers and body.                                           *)
C24_RevalidationFails ==
    [][\A h \in DOMAIN hs :
        /\ revalidationFails(h, "error") => endsWith(h, httpError(504))
        /\ \A mode \in {"500", "503"} :
              revalidationFails(h, mode) => endsWith(h, validationResponseOf(h, mode))]_vars

\* the same for a transport error and for a status above 500
C24_RevalidationFailsAbove500 ==
    [][\A h \in DOMAIN hs :
        /\ revalidationFails(h, "error") => endsWith(h, httpError(504))
        /\ revalidationFails(h, "503") => endsWith(h, validationResponseOf(h, "503"))]_vars

\* a 503 of the origin was forwarded after a revalidation
C24_Forwarded503 ==
    \E h \in DOMAIN hs :
        /\ Done(h)
        /\ hs[h].written.kind = "validation"
        /\ hs[h].written.response.StatusCode = 503

----------------------------------------------------------------------------
(* C30: a response of the origin with status 500 to a revalidation request *)
(* is handled like every other 5xx: the stored response is served stale    *)
(* when that is allowed, otherwise the 500 is forwarded; the request is    *)
(* ended without a second request to the origin.                           *)
C30_Status500 ==
    [][\A h \in DOMAIN hs :
        Revalidate(h, "500")
        => /\ hs'[h].pc = "done"
           /\ hs'[h].roundTrips = 1
           /\ ~mayServeStaleResponse(cacheConfig, hs[h].cachedResponse)
                 => endsWith(h, validationResponseOf(h, "500"))]_vars

\* a status above 500 ends the request after the one round trip
C30_Status503 ==
    [][\A h \in DOMAIN hs :
        Revalidate(h, "503")
        => /\ hs'[h].pc = "done"
           /\ hs'[h].roundTrips = 1
           /\ ~mayServeStaleResponse(cacheConfig, hs[h].cachedResponse)
                 => endsWith(h, validationResponseOf(h, "503"))]_vars

\* after a 500 to its revalidation request the handler got a second response
\* from the origin
C30_SecondRoundTrip ==
    \E h \in DOMAIN hs : hs[h].validation = 500 /\ hs[h].roundTrips = 2

----------------------------------------------------------------------------
\* what each layer stores: the bytes and the expiration of every key
stores(ls) == [i \in DOMAIN ls |-> ls[i].entityStore]

\* the request the handler works on in this step
requestOf(h) == IF hs[h].pc = "idle" THEN hs'[h].req ELSE hs[h].req

(* C25: when the round trip of a full fetch fails with a transport error,  *)
(* the client receives status 502, and the request stores nothing and      *)
(* invalidates nothing: no step of the request up to the error changes     *)
(* what the layers store.                                                  *)
C25_FullFetchError ==
    [][\A h \in DOMAIN hs :
        /\ Proxy(h, "error", <<"", "">>)
              => /\ hs'[h].pc = "done"
                 /\ hs'[h].written.response = httpError(502)
                 /\ stores(layers') = stores(layers)
        /\ (hs[h].pc \in {"idle", "revalidate"} /\ hs'[h].pc \in {"revalidate", "proxy"})
              => stores(layers') = stores(layers)]_vars

\* a full fetch ended in a 502 while the layer stores a fresh response
C25_Witness ==
    \E h \in DOMAIN hs :
        /\ Done(h)
        /\ hs[h].written.response = httpError(502)
        /\ found(layers[1], keyOfX)
        /\ remainingTTL(layers[1], keyOfX, now) > 0

\* the status is one of a non-error response
nonError(response) == response.StatusCode >= 200 /\ response.StatusCode < 400

\* a step of the handler on an unsafe request that has no non-error response
failedUnsafeStep(h) ==
    /\ hs'[h] # hs[h]
    /\ requestOf(h) # NoRequest
    /\ ~isMethodSafe(cacheConfig, requestOf(h).Method)
    /\ hs'[h].pc = "idle" \/ ~nonError(hs'[h].response)

(* C29: when a request with an unsafe method ends in a transport error or  *)
(* in a response with a status outside 200 to 399, no step of the request  *)
(* changes the expiration or the content of a stored entry.                *)
C29_NoInvalidationOnFailure ==
    [][\A h \in DOMAIN hs : failedUnsafeStep(h) => stores(layers') = stores(layers)]_vars

\* a POST was answered with the 404 of the origin while the layer stores a
\* fresh response for the same uri
C29_Witness ==
    \E h \in DOMAIN hs :
        /\ Done(h)
        /\ hs[h].req.Method = "POST"
        /\ hs[h].written.response.StatusCode = 404
        /\ found(layers[1], keyOfX)
        /\ remainingTTL(layers[1], keyOfX, now) > 0

----------------------------------------------------------------------------
(* A controller for which no ForwardConfig can be resolved:                 *)
(* DefaultForwardConfig is nil and no ForwardConfigResolver is set.         *)

NoForwardController(serveStale) ==
    [cacheConfig |-> NewCacheConfig(serveStale), forwardConfig |-> NilForwardConfig]

\* the requests of the sequential specification, and a request without a
\* Host header
NoForwardRequests == Requests \cup {[Request("GET", "/x", <<>>) EXCEPT !.Host = ""]}

NoForwardInit ==
    InitWith({"h1"}, 1, {NoForwardController(serveStale) : serveStale \in BOOLEAN},
             Representations, NoForwardRequests)

\* nothing is ever stored, so no handler revalidates or stores
NoForwardNext ==
    \/ \E h \in DOMAIN hs, req \in clients : ServeHTTP(h, req)
    \/ \E h \in DOMAIN hs : Proxy(h, "200", <<"", "">>)
    \/ \E h \in DOMAIN hs : Return(h)
    \/ Tick

SpecNoForward == NoForwardInit /\ [][NoForwardNext]_vars

(* C26: when no ForwardConfig can be resolved, a request that must be      *)
(* forwarded is answered with a 503 error response, and the handler does   *)
(* not crash.                                                              *)
C26_NoForwardConfig ==
    \A h \in DOMAIN hs :
        (Done(h) /\ forwardConfig = NilForwardConfig /\ ~servedFromStore(h))
            => /\ hs[h].written.kind # "panic"
               /\ hs[h].written.response = httpError(503)

\* without a ForwardConfig no handler ever gets as far as a round trip
C26_NoRoundTrip ==
    \A h \in DOMAIN hs : forwardConfig = NilForwardConfig => hs[h].roundTrips = 0

----------------------------------------------------------------------------
(* revalidation.go: makeRevalidationRequest for requests of every method,   *)
(* with and without conditional headers of the client, and stored responses *)
(* with and without validators.                                             *)

RevalidationRequests ==
    {Request(method, "/x", header) :
        method \in {"GET", "HEAD", "OPTIONS", "POST"},
        header \in headersOf(<<
            <<"If-None-Match", {<<>>, <<"v0">>}>>,
            <<"If-Modified-Since", {<<>>, <<"d0">>, <<"d1">>}>> >>)}

StoredResponses ==
    {[StatusCode |-> 200, Header |-> header, Body |-> <<"v1">>] :
        header \in headersOf(<<
            <<"Etag", {<<>>, <<"v1">>, <<"v2">>}>>,
            <<"Last-Modified", {<<>>, <<"d1">>}>> >>)}

notMade == [pc |-> "start", request |-> NoRequest, validationRequest |-> NoRequest]

RevalidationInit ==
    /\ layers = <<NewInMemoryCacheLayer(MaxSize)>>
    /\ now = 0
    /\ lock = [readers |-> {}, writer |-> None]
    /\ gor = [g \in Goroutines |-> idle]
    /\ fatal = FALSE
    /\ controller = NewCacheController(FALSE)
    /\ origin \in StoredResponses
    /\ clients \in {{req} : req \in RevalidationRequests}
    /\ hs = [req \in clients |-> notMade]

\* revalidationRequest := makeRevalidationRequest(req, cachedResponse): the
\* request of the client afterwards, and the request returned
MakeRevalidationRequest(req) ==
    /\ hs[req].pc = "start"
    /\ hs' = [hs EXCEPT ![req] = [pc |-> "made", request |-> req,
                                  validationRequest |-> makeRevalidationRequest(req, origin)]]
    /\ UNCHANGED <<layers, now, controller, origin, clients>>
    /\ UNCHANGED lvars

RevalidationNext == \E req \in clients : MakeRevalidationRequest(req)

SpecRevalidation == RevalidationInit /\ [][RevalidationNext]_vars

\* the stored response has the validator
hasEtag == Has(origin.Header, "Etag")
hasLastModified == Has(origin.Header, "Last-Modified")

\* the method allows If-Modified-Since
allowsModifiedSince(req) == req.Method \in {"GET", "HEAD"}

\* the returned request carries the header with the value of the validator
carries(req, name, validator) ==
    /\ hs[req].validationRequest # NoRequest
    /\ Has(origin.Header, validator)
    /\ Values(hs[req].validationRequest.Header, name) = <<Get(origin.Header, validator)>>

\* nil is returned exactly when no validator could be attached, and the
\* request of the client is as it was
nilIffNoneAttached(req) ==
    /\ hs[req].validationRequest = NoRequest
          <=> ~(hasEtag \/ (allowsModifiedSince(req) /\ hasLastModified))
    /\ hs[req].request = req

\* the returned request is the request of the client but for its header
copyOf(req) ==
    hs[req].validationRequest # NoRequest
        => [hs[req].validationRequest EXCEPT !.Header = req.Header] = req

----------------------------------------------------------------------------
(* C28: in every state of the in-memory layer, each key in staleKeys names *)
(* an entry that is stored and whose TTL is at most 0.                     *)
C28_StaleKeys ==
    \A k \in layers[1].staleKeys :
        found(layers[1], k) /\ remainingTTL(layers[1], k, now) <= 0

\* a key is marked stale only while it is stored with a TTL of at most 0
C28_MarkedWhenStale ==
    [][\A k \in layers'[1].staleKeys \ layers[1].staleKeys :
        found(layers[1], k) /\ remainingTTL(layers[1], k, now) <= 0]_vars

\* a key is marked stale and its entry is stored with a positive TTL
C28_MarkedButFresh ==
    \E k \in layers[1].staleKeys :
        found(layers[1], k) /\ remainingTTL(layers[1], k, now) > 0

----------------------------------------------------------------------------
\* the handler takes up a request whose only directive is a max-stale without
\* a value, while a 200 response with max-age alone is stored for it
takesUpMaxStaleAny(h) ==
    /\ hs[h].pc = "idle"
    /\ hs'[h].pc # "idle"
    /\ Values(hs'[h].req.Header, CacheControlHeader) = <<Dir("max-stale")>>
    /\ holdsMaxAgeEntry(layers[1], keyOfX)

(* C31: a request with a max-stale directive without a value accepts a     *)
(* stored response of any staleness: ttl > compareTTL is true for every    *)
(* stale ttl, and the request is answered from the cache when nothing else *)
(* forbids it.                                                             *)
C31_MaxStaleAny ==
    [][\A h \in DOMAIN hs :
        (takesUpMaxStaleAny(h) /\ remainingTTL(layers[1], keyOfX, now) <= 0)
        => /\ cachedResponseIsFresh(hs'[h].req, remainingTTL(layers[1], keyOfX, now))
           /\ answeredFromCache(hs'[h])]_vars

\* what the code does: the product of MinInt and a second wraps to 0, and the
\* request is answered from the cache exactly when the response is fresh
C31_MaxStaleAnyWraps ==
    [][\A h \in DOMAIN hs :
        takesUpMaxStaleAny(h)
        => /\ WrapInt(clientDirectives(hs'[h].req).compareTTL * Second) = 0
           /\ answeredFromCache(hs'[h]) <=> remainingTTL(layers[1], keyOfX, now) > 0]_vars

\* a request with max-stale alone was sent to the origin for a stale response
C31_StaleNotAccepted ==
    \E h \in DOMAIN hs :
        /\ hs[h].pc \in {"revalidate", "proxy"}
        /\ Values(hs[h].req.Header, CacheControlHeader) = <<Dir("max-stale")>>
        /\ holdsMaxAgeEntry(layers[1], keyOfX)
        /\ remainingTTL(layers[1], keyOfX, now) <= 0

----------------------------------------------------------------------------
(* cacheability.go: shouldStoreResponse and getResponseTTL as storeResponse *)
(* calls them, for responses and requests with every header the two read.   *)

\* the largest number of seconds whose product with a second keeps the width
TooManySeconds == -(MinInt \div Second)

\* the request of a response: method, path, Cache-Control and Authorization
StoringRequests ==
    {Request(method, path, header) :
        method \in {"GET", "HEAD", "POST"},
        path \in {"/x", "/y.css"},
        header \in {<<>>,
                    mkHeader(<< <<CacheControlHeader, <<Dir(NoStoreDirective)>>>> >>),
                    mkHeader(<< <<"Authorization", <<"secret">>>> >>)}}

\* responses that differ in what shouldStoreResponse reads
StoringResponses ==
    {[StatusCode |-> status, Header |-> header, Body |-> <<"v1">>, Request |-> req] :
        status \in {200, 206, 500},
        req \in StoringRequests,
        header \in headersOf(<<
            <<CacheControlHeader,
              { <<>>, <<Dir(NoStoreDirective)>>, <<Dir(PrivateDirective)>>,
                <<Dir(MustRevalidateDirective)>>, <<Dir(PublicDirective)>>,
                <<DirInt(SMaxAgeDirective, 1)>>, <<DirInt(MaxAgeDirective, 1)>>,
                <<Dir(MaxAgeDirective)>>, <<DirBad(MaxAgeDirective)>> }>>,
            <<VaryHeader, {<<>>, << <<"*">> >>, << <<"H">> >>}>>,
            <<ExpiresHeader, {<<>>, <<-1>>, <<0>>, <<2 * Second>>}>> >>)}

\* responses that differ in what getResponseTTL and getResponseAge read
AgingResponses ==
    {[StatusCode |-> status, Header |-> header, Body |-> <<"v1">>,
      Request |-> Request("GET", "/x", <<>>)] :
        status \in {200, 500},
        header \in headersOf(<<
            <<CacheControlHeader,
              { <<>>, <<DirInt(SMaxAgeDirective, 2)>>, <<DirInt(MaxAgeDirective, 1)>>,
                <<DirInt(MaxAgeDirective, 0), DirInt(SMaxAgeDirective, 2)>>,
                <<DirBad(SMaxAgeDirective), DirInt(MaxAgeDirective, 1)>>,
                <<DirBad(MaxAgeDirective)>>,
                <<DirInt(MaxAgeDirective, TooManySeconds)>> }>>,
            <<DateHeader, {<<>>, <<-1>>, <<0>>, <<Second>>}>>,
            <<AgeHeader, {<<>>, <<1>>, <<-1>>}>>,
            <<ExpiresHeader, {<<>>, <<-1>>, <<0>>, <<2 * Second>>}>> >>)}

notJudged == [stored |-> <<>>, ttl |-> <<>>]

ResponsesInit ==
    /\ layers = <<NewInMemoryCacheLayer(MaxSize)>>
    /\ now \in {0, Second}
    /\ lock = [readers |-> {}, writer |-> None]
    /\ gor = [g \in Goroutines |-> idle]
    /\ fatal = FALSE
    /\ controller \in {[NewCacheController(FALSE) EXCEPT !.cacheConfig.CacheIncompleteResponses = b] :
                          b \in BOOLEAN}
    /\ origin \in StoringResponses \cup AgingResponses
    /\ clients = {origin.Request}
    /\ hs = notJudged

\* storeResponse: shouldStoreResponse(cacheConfig, response)
ShouldStore ==
    /\ hs.stored = <<>>
    /\ hs' = [hs EXCEPT !.stored = <<shouldStoreResponse(cacheConfig, origin, now)>>]
    /\ UNCHANGED <<layers, now, controller, origin, clients>>
    /\ UNCHANGED lvars

\* storeResponse: ttl := getResponseTTL(cacheConfig, response)
ResponseTTL ==
    /\ hs.ttl = <<>>
    /\ hs' = [hs EXCEPT !.ttl = <<getResponseTTL(cacheConfig, origin, now)>>]
    /\ UNCHANGED <<layers, now, controller, origin, clients>>
    /\ UNCHANGED lvars

ResponsesNext == ShouldStore \/ ResponseTTL

SpecResponses == ResponsesInit /\ [][ResponsesNext]_vars

\* the directives of the response under judgement, and of its request
judgedDirectives == Range(Values(origin.Header, CacheControlHeader))
judgedRequestDirectives == Range(Values(origin.Request.Header, CacheControlHeader))
namesDirective(ds, name) == \E d \in ds : d.n = name

\* the ordered decision list: each step is <<whether it applies, its result>>
decisionSteps ==
    << <<origin.Request.Method \notin cacheConfig.SafeMethods, FALSE>>,
       <<origin.Request.Method \notin cacheConfig.CacheableMethods, FALSE>>,
       <<origin.StatusCode = 206 /\ ~cacheConfig.CacheIncompleteResponses, FALSE>>,
       <<namesDirective(judgedRequestDirectives, NoStoreDirective), FALSE>>,
       <<\/ namesDirective(judgedDirectives, NoStoreDirective)
         \/ namesDirective(judgedDirectives, PrivateDirective), FALSE>>,
       <</\ "Authorization" \in DOMAIN origin.Request.Header
         /\ ~\E name \in {MustRevalidateDirective, PublicDirective, SMaxAgeDirective} :
                namesDirective(judgedDirectives, name), FALSE>>,
       <<VaryHeader \in DOMAIN origin.Header /\ origin.Header[VaryHeader] = << <<"*">> >>, FALSE>>,
       <<\E name \in {SMaxAgeDirective, MaxAgeDirective, PublicDirective} :
            namesDirective(judgedDirectives, name), TRUE>>,
       <<ExpiresHeader \in DOMAIN origin.Header /\ origin.Header[ExpiresHeader][1] < 0, FALSE>>,
       <<ExpiresHeader \in DOMAIN origin.Header /\ origin.Header[ExpiresHeader][1] > now, TRUE>>,
       <<TRUE, /\ origin.Request.URL.Path = "/y.css"
               /\ origin.StatusCode \in StatusCodes>> >>

firstApplicable == CHOOSE i \in 1..Len(decisionSteps) :
    decisionSteps[i][1] /\ \A j \in 1..(i - 1) : ~decisionSteps[j][1]

\* no step before the directive step refuses the response
reachesDirectiveStep == \A j \in 1..7 : ~decisionSteps[j][1]
expiresUnusable ==
    /\ ExpiresHeader \in DOMAIN origin.Header
    /\ origin.Header[ExpiresHeader][1] <= now

fieldParses(name) == name \in DOMAIN origin.Header /\ origin.Header[name][1] >= 0
statedDate == IF fieldParses(DateHeader) THEN origin.Header[DateHeader][1] ELSE now
sinceDate == (now - statedDate) \div Second
statedAge ==
    (IF sinceDate > 0 THEN sinceDate ELSE 0)
        + (IF AgeHeader \in DOMAIN origin.Header THEN origin.Header[AgeHeader][1] ELSE 0)

\* the value of the first directive of that name with a number, if any
statedSeconds(name) ==
    LET ds == Values(origin.Header, CacheControlHeader)
        at == {i \in 1..Len(ds) : ds[i].n = name /\ ds[i].kind = "int"}
    IN  IF at = {} THEN <<>> ELSE <<ds[CHOOSE i \in at : \A j \in at : i <= j].val>>

\* the remaining freshness in ticks, over the integers
statedTTL ==
    IF statedSeconds(SMaxAgeDirective) # <<>>
    THEN (statedSeconds(SMaxAgeDirective)[1] - statedAge) * Second
    ELSE IF statedSeconds(MaxAgeDirective) # <<>>
    THEN (statedSeconds(MaxAgeDirective)[1] - statedAge) * Second
    ELSE IF ExpiresHeader \in DOMAIN origin.Header
    THEN IF fieldParses(ExpiresHeader)
         THEN origin.Header[ExpiresHeader][1] - statedDate - statedAge * Second
         ELSE -1
    ELSE IF origin.StatusCode \in StatusCodes
    THEN StatusCodeDefaultExpirationTimes(origin.StatusCode)
    ELSE -1

\* C33: getResponseTTL returns s-maxage minus age, else max-age minus age,
\* else Expires minus Date minus age (-1 when Expires cannot be parsed, Date
\* taken as now when absent or unparseable), else the configured default for
\* the status code, else -1; age is max(0, now - Date) plus the Age header.
C33_ResponseTTL == hs.ttl # <<>> => hs.ttl[1] = statedTTL

\* the same for every response whose freshness fits the width of a duration
C33_ResponseTTLInRange ==
    (hs.ttl # <<>> /\ statedTTL >= MinInt /\ statedTTL < -MinInt) => hs.ttl[1] = statedTTL

\* a response fresh for longer than a duration can hold is stored as stale
C33_FreshTakenAsStale == hs.ttl # <<>> /\ statedTTL > 0 /\ hs.ttl[1] < 0

C33_FromExpires ==
    /\ hs.ttl # <<>> /\ hs.ttl[1] = statedTTL
    /\ statedSeconds(SMaxAgeDirective) = <<>> /\ statedSeconds(MaxAgeDirective) = <<>>
    /\ fieldParses(ExpiresHeader) /\ ~fieldParses(DateHeader) /\ statedAge > 0

----------------------------------------------------------------------------
(* storeResponseInCache: the goroutine that serialises the response and the *)
(* layer writes of storeInCache.                                            *)

inStoreResponseInCache(me) ==
    me.pc \in {"layerSet", "layerGet"} /\ me.storing.what = "response"

\* the step with which the handler leaves storeResponseInCache
leavesStoreResponseInCache(h) ==
    inStoreResponseInCache(hs[h]) /\ ~inStoreResponseInCache(hs'[h])

\* the step is the Set of a layer that is handed the nil reader of a Get
setOfNilReader(h) == hs[h].pc = "layerSet" /\ hs[h].storing.entry.kind = None

\* C35: storeResponseInCache always ends with the serializer goroutine
\* joined: on every path on which the handler leaves it, no goroutine stays
\* blocked on the pipe or on the error channel.
C35_ProducerJoined == [][\A h \in DOMAIN hs :
    leavesStoreResponseInCache(h) => hs'[h].producer = "joined"]_vars

\* on every path on which storeInCache returns the goroutine is joined, and
\* the handler ends there exactly when storeResponse panics with the error
C35_JoinedWhenReturned == [][\A h \in DOMAIN hs :
    (leavesStoreResponseInCache(h) /\ ~setOfNilReader(h))
        => /\ hs'[h].producer = "joined"
           /\ hs'[h].pc = "done" <=> hs'[h].written.kind = "panic"]_vars

\* the handler has ended and its goroutine still waits to send its error
C35_BlockedOnErrChan == \E h \in DOMAIN hs : hs[h].pc = "done" /\ hs[h].producer = "sending"

----------------------------------------------------------------------------
(* storeInCache: the write through the layers, one request at a time, two   *)
(* layers, an origin whose Vary header makes the secondary-keys entry       *)
(* larger than a layer.                                                     *)

InitCascade == InitWith({"h1"}, 2, Controllers, VaryRepresentations, VaryRequests)

SpecCascade == InitCascade /\ [][Next]_vars

\* the step with which storeInCache returns nil: the store goes on to the
\* next entry or to the re-read
storeInCacheReturnsNil(h) ==
    hs[h].pc = "layerGet" /\ hs'[h].storing.what # hs[h].storing.what

\* the step with which storeInCache returns the error of a Set
storeInCacheReturnsErr(h) ==
    hs[h].pc = "layerSet" /\ hs[h].storing.entry.kind # None /\ hs'[h].pc = "done"

\* the bytes storeResponseInCache and storeSecondaryKeysInCache hand over
bytesOf(me) ==
    IF me.storing.what = "response" THEN writeResponse(me.response)
    ELSE joinKeys(IF Has(me.response.Header, VaryHeader)
                  THEN Get(me.response.Header, VaryHeader) ELSE <<>>)

holdsBytes(layer, key, bytes) == found(layer, key) /\ layer.entityStore[key].Data = bytes

\* C34: when storeInCache returns success every layer holds the key with the
\* bytes handed to it; when the Set of a layer fails the error is returned
\* (storeResponse panics with it) and no later layer is written.
C34_WriteThrough == [][\A h \in DOMAIN hs :
    /\ storeInCacheReturnsNil(h)
          => \A i \in DOMAIN layers : holdsBytes(layers'[i], hs[h].storing.key, bytesOf(hs[h]))
    /\ storeInCacheReturnsErr(h)
          => /\ hs'[h].written.kind = "panic"
             /\ \A j \in DOMAIN layers : j > hs[h].storing.i
                    => /\ layers'[j] = layers[j]
                       /\ ~holdsBytes(layers'[j], hs[h].storing.key, bytesOf(hs[h]))]_vars

\* with two stores of one key at a time: the layers that hold the key when
\* storeInCache returns hold the same bytes
C34_SameBytesUnderConcurrentStores == [][\A h \in DOMAIN hs :
    ( /\ storeInCacheReturnsNil(h)
      /\ \A i \in DOMAIN layers : found(layers'[i], hs[h].storing.key) )
        => \A i, j \in DOMAIN layers :
              layers'[i].entityStore[hs[h].storing.key].Data
                  = layers'[j].entityStore[hs[h].storing.key].Data]_vars

\* the response was written through both layers
C34_ResponseInBothLayers ==
    /\ hs["h1"].pc = "reread"
    /\ \A i \in DOMAIN layers : holdsBytes(layers[i], hs["h1"].cacheKey, writeResponse(hs["h1"].response))

\* the Set of the first layer failed and the second layer is empty
C34_FirstSetFailed ==
    /\ hs["h1"].pc = "done" /\ hs["h1"].written.kind = "panic"
    /\ hs["h1"].storing.i = 1 /\ hs["h1"].storing.entry.kind # None
    /\ layers[2].entityStore = <<>>

----------------------------------------------------------------------------
(* ServeHTTP: two requests for one key at a time.                           *)

\* the key ServeHTTP looks the request up under, given what the layers hold
lookupKey(ls, req) ==
    LET primaryCacheKey == getPrimaryCacheKey(cacheConfig, forwardConfig, req)
    IN primaryCacheKey
         \o getSecondaryCacheKey(findSecondaryKeysInCache(ls, primaryCacheKey, now).keys, req)

missesIn(ls, req) == \A i \in DOMAIN ls : ~found(ls[i], lookupKey(ls, req))

\* the handler is in its round trip to the origin for a full fetch
inFlight(me) == me.pc = "proxy"

\* C36: a request that misses is forwarded whatever the other handlers do,
\* also while another request for the same key is in its round trip to the
\* origin: the lookup depends on the layers only, the other fetch goes on,
\* and both fetches are in flight at once.
C36_BothForwarded == [][\A h \in DOMAIN hs :
    (hs[h].pc = "idle" /\ hs'[h].pc # "idle" /\ missesIn(layers, hs'[h].req))
        => /\ inFlight(hs'[h])
           /\ \A g \in DOMAIN hs \ {h} : hs'[g] = hs[g]]_vars

\* two fetches of one key are in flight
C36_TwoInFlight ==
    /\ inFlight(hs["h1"]) /\ inFlight(hs["h2"])
    /\ hs["h1"].cacheKey = hs["h2"].cacheKey
    /\ hs["h1"].pc = "proxy" /\ hs["h1"].cachedResponse = NoResponse
    /\ hs["h2"].cachedResponse = NoResponse

----------------------------------------------------------------------------
(* The contexts of the requests handed to the transport. A context is the   *)
(* chain of cancellable contexts it derives from; it is done when one of    *)
(* them has been cancelled.                                                 *)

\* context.Background()
Background == <<>>

\* req.Context() of a request the server hands to ServeHTTP: cancelled when
\* the connection of the client closes
ClientContext == <<"client">>

\* context.WithCancel(parent)
WithCancel(parent, id) == Append(parent, id)

\* <-ctx.Done()
isDone(ctx, cancelled) == \E i \in DOMAIN ctx : ctx[i] \in cancelled

\* a request together with its context
withContext(req, ctx) == [request |-> req, ctx |-> ctx]

\* http.Request.Clone(ctx)
Clone(r, ctx) == [r EXCEPT !.ctx = ctx]

\* a clone that keeps the context of the request it is made from
cloneOfRequest(forwardContext, r) == r

\* proxyToOrigin: outreq := req.Clone(forwardContext)
cloneForOrigin(forwardContext, r) == Clone(r, forwardContext)

noRoundTrip ==
    [pc |-> "idle", kind |-> None, outreq |-> withContext(NoRequest, Background),
     cancelled |-> {}]

ContextInit ==
    /\ layers = <<NewInMemoryCacheLayer(MaxSize)>>
    /\ now = 0
    /\ lock = [readers |-> {}, writer |-> None]
    /\ gor = [g \in Goroutines |-> idle]
    /\ fatal = FALSE
    /\ controller = NewCacheController(FALSE)
    /\ origin \in StoredResponses
    /\ clients \in {{req} : req \in RevalidationRequests}
    /\ hs = noRoundTrip

\* proxyRequestToOrigin: ctx, cancel := context.WithCancel(req.Context());
\* proxyToOrigin(ctx, transport, forwardConfig, req) up to transport.RoundTrip
ContextProxy(req) ==
    /\ hs.pc = "idle"
    /\ LET ctx == WithCancel(ClientContext, "forward")
       IN hs' = [hs EXCEPT !.pc = "roundTrip", !.kind = "full",
                           !.outreq = cloneForOrigin(ctx, withContext(req, ClientContext))]
    /\ UNCHANGED <<layers, now, controller, origin, clients>>
    /\ UNCHANGED lvars

\* getCachedResponse: makeRevalidationRequest clones the request with
\* context.Background(); proxyToOrigin(ctx, ..., revalidationRequest) up to
\* transport.RoundTrip
ContextRevalidate(req) ==
    /\ hs.pc = "idle"
    /\ LET revalidationRequest ==
               withContext(makeRevalidationRequest(req, origin), Background)
           ctx == WithCancel(ClientContext, "forward")
       IN /\ revalidationRequest.request.Method # None
          /\ hs' = [hs EXCEPT !.pc = "roundTrip", !.kind = "revalidation",
                              !.outreq = cloneForOrigin(ctx, revalidationRequest)]
    /\ UNCHANGED <<layers, now, controller, origin, clients>>
    /\ UNCHANGED lvars

\* the connection of the client closes: the server cancels the context of the request
ClientCancels ==
    /\ "client" \notin hs.cancelled
    /\ hs' = [hs EXCEPT !.cancelled = @ \cup {"client"}]
    /\ UNCHANGED <<layers, now, controller, origin, clients>>
    /\ UNCHANGED lvars

\* transport.RoundTrip returns; defer cancel()
RoundTripReturns ==
    /\ hs.pc = "roundTrip"
    /\ hs' = [hs EXCEPT !.pc = "returned", !.cancelled = @ \cup {"forward"}]
    /\ UNCHANGED <<layers, now, controller, origin, clients>>
    /\ UNCHANGED lvars

ContextNext ==
    \/ \E req \in clients : ContextProxy(req)
    \/ \E req \in clients : ContextRevalidate(req)
    \/ ClientCancels
    \/ RoundTripReturns

SpecContext == ContextInit /\ [][ContextNext]_vars

\* C37: while a round trip to the origin is in flight, for a full fetch or
\* for a revalidation, the context of the request handed to the transport is
\* done whenever the context of the client's request is.
C37_CancellationObservable ==
    (hs.pc = "roundTrip" /\ isDone(ClientContext, hs.cancelled))
        => isDone(hs.outreq.ctx, hs.cancelled)

\* the client went away during a revalidation, and the round trip sees it
C37_CancelledInRevalidation ==
    /\ hs.pc = "roundTrip" /\ hs.kind = "revalidation"
    /\ isDone(ClientContext, hs.cancelled)
    /\ isDone(hs.outreq.ctx, hs.cancelled)

----------------------------------------------------------------------------
\* C38: in every state the in-memory layer reaches through Get, Set, Delete
\* and Refresh from an empty layer, currentSize is the sum of the byte lengths
\* of the entries in the entity store, also after an overwrite or an eviction.
C38_CurrentSize ==
    \A i \in DOMAIN layers :
        layers[i].currentSize = sizeOf(layers[i], DOMAIN layers[i].entityStore)

\* a Set of an entry larger than the layer went through after an eviction,
\* next to another entry
C38_AfterEviction ==
    /\ gor["g1"].op = "Set" /\ ~gor["g1"].err
    /\ DataLen(gor["g1"].data) > layers[1].MaxSize
    /\ Cardinality(DOMAIN layers[1].entityStore) = 2
    /\ layers[1].currentSize = sizeOf(layers[1], DOMAIN layers[1].entityStore)

----------------------------------------------------------------------------
(* An origin that selects its representation by the fields of its Vary      *)
(* header and changes that header over time; requests with one or two field *)
(* lines of H, with and without G.                                          *)

VariantRepresentations ==
    {[Representation(<<MaxAge>>, TRUE, vary) EXCEPT !.Body = SelectedBody] :
        vary \in {<<"H">>, <<"G">>}}

VariantRequests ==
    {Request("GET", "/x", header) :
        header \in headersOf(<<
            <<"H", {<<"a">>, <<"a", "b">>, <<"ab">>}>>,
            <<"G", {<<>>, <<"a">>}>> >>)}

InitVariants ==
    InitWith({"h1"}, 1, {NewCacheController(FALSE)}, VariantRepresentations, VariantRequests)

\* the origin answers with another Vary header from now on
OriginChanges ==
    /\ \A h \in DOMAIN hs : hs[h].pc = "idle"
    /\ origin' \in VariantRepresentations \ {origin}
    /\ UNCHANGED <<layers, now, controller, hs, clients>>
    /\ UNCHANGED lvars

VariantsNext == Next \/ OriginChanges

SpecVariants == InitVariants /\ [][VariantsNext]_vars

\* the step answers the request from the cache without a round trip
servedFromCache(h) ==
    /\ hs[h].pc = "idle" /\ hs'[h].pc = "done"
    /\ hs'[h].written.response.StatusCode = 200

\* the values of the selecting fields the served response was selected by
selectedBy(h) == hs'[h].written.response.Body[1]

\* C39: a response stored with a Vary header is served from the cache only
\* to requests whose values of the fields it names equal those of the request
\* it was stored for, whatever was stored in between.
C39_VariantMatches == [][\A h \in DOMAIN hs :
    servedFromCache(h)
        => \A f \in DOMAIN selectedBy(h) : Values(hs'[h].req.Header, f) = selectedBy(h)[f]]_vars

\* the same with the values of a field compared as the key writes them: sorted
\* and written one after the other
C39_VariantMatchesAsWritten == [][\A h \in DOMAIN hs :
    servedFromCache(h)
        => \A f \in DOMAIN selectedBy(h) :
              writeValues(sortStrings(Values(hs'[h].req.Header, f)))
                  = writeValues(sortStrings(selectedBy(h)[f]))]_vars

\* a variant is served from the cache to a request with the values it was
\* selected by, after the origin changed its Vary header
C39_ServedAfterChange ==
    /\ hs["h1"].pc = "done" /\ hs["h1"].written.kind = "cached"
    /\ \A f \in DOMAIN hs["h1"].written.response.Body[1] :
          Values(hs["h1"].req.Header, f) = hs["h1"].written.response.Body[1][f]
    /\ Get(hs["h1"].written.response.Header, VaryHeader) # Get(origin.Header, VaryHeader)

\* the secondary-keys entry was evicted while a variant is still stored
C39_KeysEvicted ==
    /\ DOMAIN layers[1].entityStore # {}
    /\ \A k \in DOMAIN layers[1].entityStore : layers[1].entityStore[k].Data.kind = "response"

----------------------------------------------------------------------------
(* A cache in front of two hosts: GET /x on the hosts a and b, POST /x on   *)
(* the host a, answered with a Location or Content-Location on the host b.  *)

HostRequests ==
    {[Request("GET", "/x", <<>>) EXCEPT !.Host = host] : host \in {"a", "b"}}
    \cup {Request("POST", "/x", <<>>)}

HostLocations == {<<"", "">>, <<"http://b/x", "">>, <<"", "http://b/x">>, <<"/y", "">>}

InitHosts ==
    InitWith({"h1"}, 1, {NewCacheController(FALSE)},
             {Representation(<<MaxAge>>, TRUE, <<>>)}, HostRequests)

HostsNext ==
    \/ \E h \in DOMAIN hs, req \in clients : ServeHTTP(h, req)
    \/ \E h \in DOMAIN hs, mode \in OriginModes : Revalidate(h, mode)
    \/ \E h \in DOMAIN hs, mode \in OriginModes, loc \in HostLocations : Proxy(h, mode, loc)
    \/ \E h \in DOMAIN hs : Store(h)
    \/ \E h \in DOMAIN hs : StoreSet(h)
    \/ \E h \in DOMAIN hs : StoreGet(h)
    \/ \E h \in DOMAIN hs : Reread(h)
    \/ \E h \in DOMAIN hs : Return(h)
    \/ Tick

SpecHosts == InitHosts /\ [][HostsNext]_vars

\* the host of the effective URI an entry is stored under
hostOfKey(key) == IF key[1] = "secondary-keys" THEN key[4] ELSE key[3]

\* the host of the effective URI of the request
hostOfRequest(req) == getEffectiveURI(req, forwardConfig)[2]

\* the step is the round trip of an unsafe request
unsafeRoundTrip(h) ==
    /\ hs[h].pc = "proxy" /\ hs'[h].pc # "proxy"
    /\ ~isMethodSafe(cacheConfig, hs[h].req.Method)

\* the entries of another host keep their expiration in the step
otherHostsKeep(h) ==
    \A i \in DOMAIN layers : \A key \in DOMAIN layers[i].entityStore :
        hostOfKey(key) # hostOfRequest(hs[h].req)
            => /\ found(layers'[i], key)
               /\ layers'[i].entityStore[key].Expiration = layers[i].entityStore[key].Expiration

\* C40: an unsafe request changes the expiration only of entries whose
\* effective URI has the host of the request; a Location or Content-Location
\* that names another host does not make that host's entries stale.
C40_SameHostOnly == [][\A h \in DOMAIN hs : unsafeRoundTrip(h) => otherHostsKeep(h)]_vars

\* the same for responses whose Location and Content-Location name no host
C40_SameHostOnlyWithoutHost == [][\A h \in DOMAIN hs :
    ( /\ unsafeRoundTrip(h)
      /\ hs'[h].pc = "store"
            => \A name \in {"Location", "Content-Location"} :
                  headerURL(hs'[h].response, name).Host = "" )
        => otherHostsKeep(h)]_vars

\* a POST on the host a was answered while a fresh entry of the host b is stored
C40_OtherHostStored ==
    /\ hs["h1"].pc = "store" /\ hs["h1"].req.Method = "POST"
    /\ \E key \in DOMAIN layers[1].entityStore :
          /\ hostOfKey(key) = "b"
          /\ layers[1].entityStore[key].Data.kind = "response"
          /\ remainingTTL(layers[1], key, now) > 0

====
